---- MODULE Spec2Model ----
(***************************************************************************)
(* A model of the survey application: the respondent page (TakeSurvey),    *)
(* the builder page (CreateSurvey), the template gallery (Templates) and   *)
(* the results page (SurveyResults), all talking to one relational store.  *)
(*                                                                         *)
(* Text the code computes on (titles, question texts, answer values) is a  *)
(* sequence of one-character strings, so that trim, parseInt, toFixed,     *)
(* truthiness and property-key order are computed and not assumed.         *)
(* Enumerated texts the code only compares or displays (status, question   *)
(* type, toast messages) are plain strings.  A nullable value is a         *)
(* sequence of length 0 (null) or 1.                                       *)
(***************************************************************************)
EXTENDS Integers, Sequences, FiniteSets, TLC

VARIABLES
    \* the store (tables of the schema)
    surveys, questions, responses, answers, survey_templates, nextId,
    \* TakeSurvey, one component instance per respondent session
    ts_id, ts_survey, ts_questions, ts_answers, ts_loading, ts_submitting,
    ts_submitted, ts_toast, ts_pc, ts_closure, ts_response,
    \* CreateSurvey
    cs_title, cs_description, cs_questions, cs_saving, cs_toast, cs_pc, cs_survey,
    cs_status, cs_insert, cs_closure, cs_shared,
    cs_aiPrompt, cs_isAiDialogOpen, cs_isGenerating, cs_gpc,
    \* Templates
    tp_templates, tp_pc, tp_runs, tp_toast,
    \* SurveyResults
    sr_question, sr_answers, sr_analytics, sr_pc,
    sr_id, sr_survey, sr_questions, sr_responseCount, sr_loading, sr_toast,
    sr_results, sr_request, sr_csv

storeVars == <<surveys, questions, responses, answers, survey_templates, nextId>>
tsVars == <<ts_id, ts_survey, ts_questions, ts_answers, ts_loading, ts_submitting,
            ts_submitted, ts_toast, ts_pc, ts_closure, ts_response>>
csAiVars == <<cs_aiPrompt, cs_isAiDialogOpen, cs_isGenerating, cs_gpc>>
csVars == <<cs_title, cs_description, cs_questions, cs_saving, cs_toast, cs_pc,
            cs_survey, cs_status, cs_insert, cs_closure, cs_shared, csAiVars>>
tpVars == <<tp_templates, tp_pc, tp_runs, tp_toast>>
srVars == <<sr_question, sr_answers, sr_analytics, sr_pc,
            sr_id, sr_survey, sr_questions, sr_responseCount, sr_loading, sr_toast,
            sr_results, sr_request, sr_csv>>
vars == <<storeVars, tsVars, csVars, tpVars, srVars>>

----------------------------------------------------------------------------
(* Bounds of the model.                                                    *)

MaxAnswers == 4
MaxResponses == 2
MaxQuestions == 2
MaxSurveys == 2
MaxOptions == 2

----------------------------------------------------------------------------
(* Texts.                                                                  *)

Null == <<>>
Some(x) == <<x>>

Digits == <<"0", "1", "2", "3", "4", "5", "6", "7", "8", "9">>

IsDigit(c) == \E i \in 1..10 : Digits[i] = c

DigitValue(c) == (CHOOSE i \in 1..10 : Digits[i] = c) - 1

\* WhiteSpace and LineTerminator of the language, as far as a string of this
\* module can hold them: space, tab, line feed, carriage return, form feed,
\* vertical tab (U+000B), no-break space (U+00A0), the byte order mark
\* (U+FEFF) and the ogham space mark (U+1680).  The other space separators
\* (U+2000 to U+200A, U+202F, U+205F, U+3000) and the separators U+2028 and
\* U+2029 cannot be written in a string here and occur in no text considered.
IsWhitespace(c) ==
    c \in {" ", "\t", "\n", "\r", "\f", "", " ", "﻿", " "}

\* JavaScript ToBoolean of a string: the empty string is falsy
Truthy(s) == Len(s) > 0

RECURSIVE TrimStart(_)
TrimStart(s) ==
    IF Len(s) > 0 /\ IsWhitespace(Head(s)) THEN TrimStart(Tail(s)) ELSE s

RECURSIVE TrimEnd(_)
TrimEnd(s) ==
    IF Len(s) > 0 /\ IsWhitespace(s[Len(s)])
    THEN TrimEnd(SubSeq(s, 1, Len(s) - 1))
    ELSE s

\* String.prototype.trim
Trim(s) == TrimEnd(TrimStart(s))

\* Number.prototype.toString of a natural number
RECURSIVE NatToString(_)
NatToString(n) ==
    IF n < 10 THEN <<Digits[n + 1]>>
    ELSE NatToString(n \div 10) \o <<Digits[(n % 10) + 1]>>

\* A JavaScript number: NaN, or the rational num/den (den > 0)
NaN == [nan |-> TRUE, num |-> 0, den |-> 1]
Num(n) == [nan |-> FALSE, num |-> n, den |-> 1]

RECURSIVE DigitPrefixValue(_, _)
DigitPrefixValue(s, acc) ==
    IF Len(s) > 0 /\ IsDigit(Head(s))
    THEN DigitPrefixValue(Tail(s), 10 * acc + DigitValue(Head(s)))
    ELSE acc

HexDigits == <<"0", "1", "2", "3", "4", "5", "6", "7", "8", "9",
               "a", "b", "c", "d", "e", "f">>

UpperHexDigits == <<"0", "1", "2", "3", "4", "5", "6", "7", "8", "9",
                    "A", "B", "C", "D", "E", "F">>

IsHexDigit(c) == \E i \in 1..16 : HexDigits[i] = c \/ UpperHexDigits[i] = c

HexDigitValue(c) == (CHOOSE i \in 1..16 : HexDigits[i] = c \/ UpperHexDigits[i] = c) - 1

RECURSIVE HexPrefixValue(_, _)
HexPrefixValue(s, acc) ==
    IF Len(s) > 0 /\ IsHexDigit(Head(s))
    THEN HexPrefixValue(Tail(s), 16 * acc + HexDigitValue(Head(s)))
    ELSE acc

\* parseInt(string) with no radix: leading white space is skipped, an optional
\* sign is read, a prefix 0x or 0X selects radix 16 (otherwise 10), then the
\* longest prefix of digits of the radix is read; NaN if there is none
parseInt(str) ==
    LET s == TrimStart(str)
        sign == IF Len(s) > 0 /\ Head(s) = "-" THEN -1 ELSE 1
        t == IF Len(s) > 0 /\ Head(s) \in {"-", "+"} THEN Tail(s) ELSE s
        hex == Len(t) >= 2 /\ t[1] = "0" /\ t[2] \in {"x", "X"}
        u == IF hex THEN Tail(Tail(t)) ELSE t
    IN IF hex
       THEN IF Len(u) > 0 /\ IsHexDigit(Head(u))
            THEN Num(sign * HexPrefixValue(u, 0))
            ELSE NaN
       ELSE IF Len(u) > 0 /\ IsDigit(Head(u))
            THEN Num(sign * DigitPrefixValue(u, 0))
            ELSE NaN

\* toFixed1 cutting the digits after the first decimal instead of rounding
toFixed1_Truncating(x) ==
    IF x.nan THEN <<"N", "a", "N">>
    ELSE LET a == IF x.num < 0 THEN -x.num ELSE x.num
             tenths == (10 * a) \div x.den
         IN (IF x.num < 0 THEN <<"-">> ELSE <<>>)
            \o NatToString(tenths \div 10) \o <<".">> \o <<Digits[(tenths % 10) + 1]>>

\* the number of binary digits of a natural number (0 for 0)
RECURSIVE BitLength(_)
BitLength(n) == IF n = 0 THEN 0 ELSE 1 + BitLength(n \div 2)

\* the remainder r * 2^n mod den that is left after n digits of the binary
\* expansion of r/den (0 <= r < den), eight digits at a time
RECURSIVE RemainderAfter(_, _, _)
RemainderAfter(r, den, n) ==
    IF n = 0 THEN r
    ELSE IF n >= 8 THEN RemainderAfter((256 * r) % den, den, n - 8)
    ELSE RemainderAfter((2 * r) % den, den, n - 1)

\* digit n (n >= 1) of the binary expansion of r/den
FractionDigit(r, den, n) == (2 * RemainderAfter(r, den, n - 1)) \div den

\* the number of zeros that precede the first 1 in the expansion of a/den < 1
RECURSIVE LeadingZeros(_, _)
LeadingZeros(a, den) == IF 2 * a >= den THEN 0 ELSE 1 + LeadingZeros(2 * a, den)

\* The sign of d - a/den, d being the double nearest to a/den (a, den > 0):
\* the quotient is rounded to 53 significant binary digits, ties to even.
DoubleError(a, den) ==
    LET q == a \div den
        r == a % den
        \* the place, after the point, of the first digit that is dropped
        place == IF q > 0 THEN 54 - BitLength(q) ELSE LeadingZeros(a, den) + 54
        last == IF place = 1 THEN q % 2 ELSE FractionDigit(r, den, place - 1)
        bit == FractionDigit(r, den, place)
        sticky == RemainderAfter(r, den, place) # 0
    IN IF bit = 1 /\ (sticky \/ last = 1) THEN 1
       ELSE IF bit = 0 /\ ~sticky THEN 0
       ELSE -1

\* Number.prototype.toFixed(1) of the double nearest to num/den: the tenth
\* nearest to the double, the larger one of two equally near.  The quotient of
\* two small integers is nearer to its nearest tenth than the double is to the
\* quotient, unless the quotient is halfway between two tenths (x.x5): then a
\* double below the quotient (1.15, 0.35) goes down, and a double that is the
\* quotient (x.25, x.75) or above it goes up.
toFixed1(x) ==
    IF x.nan THEN <<"N", "a", "N">>
    ELSE LET a == IF x.num < 0 THEN -x.num ELSE x.num
             halfway == (20 * a) % x.den = 0 /\ ((20 * a) \div x.den) % 2 = 1
             tenths == IF halfway /\ DoubleError(a, x.den) < 0
                       THEN (10 * a) \div x.den
                       ELSE (20 * a + x.den) \div (2 * x.den)
         IN (IF x.num < 0 THEN <<"-">> ELSE <<>>)
            \o NatToString(tenths \div 10) \o <<".">> \o <<Digits[(tenths % 10) + 1]>>

\* a + b of two JavaScript numbers that are integers or NaN
Plus(a, b) == IF a.nan \/ b.nan THEN NaN ELSE Num(a.num + b.num)

\* a / n for an integer (or NaN) a and a positive integer n
Divide(a, n) == IF a.nan THEN NaN ELSE [nan |-> FALSE, num |-> a.num, den |-> n]

----------------------------------------------------------------------------
(* JavaScript objects used as dictionaries (SurveyResults.tsx, counts).    *)
(* An object is the sequence of its own properties in creation order.      *)

\* A canonical array index: the decimal text of an integer 0 .. 2^32 - 2
MaxIndexText == <<"4", "2", "9", "4", "9", "6", "7", "2", "9", "4">>

RECURSIVE DigitsLess(_, _)
DigitsLess(a, b) ==
    /\ Len(a) > 0
    /\ \/ DigitValue(Head(a)) < DigitValue(Head(b))
       \/ Head(a) = Head(b) /\ DigitsLess(Tail(a), Tail(b))

\* numeric order of two canonical index texts
IndexLess(a, b) == Len(a) < Len(b) \/ (Len(a) = Len(b) /\ DigitsLess(a, b))

IsArrayIndex(s) ==
    /\ Len(s) > 0
    /\ \A i \in 1..Len(s) : IsDigit(s[i])
    /\ Len(s) > 1 => s[1] # "0"
    /\ IndexLess(s, MaxIndexText) \/ s = MaxIndexText

\* A value of the language, as far as a dictionary of counts can meet one:
\* undefined, a number, a string, a built-in function (text: its name) or the
\* object Object.prototype.
Undefined == [kind |-> "undefined", num |-> 0, text |-> <<>>]
NumberValue(n) == [kind |-> "number", num |-> n, text |-> <<>>]
StringValue(t) == [kind |-> "string", num |-> 0, text |-> t]
FunctionValue(name) == [kind |-> "function", num |-> 0, text |-> name]
ObjectPrototype == [kind |-> "object", num |-> 0, text |-> <<>>]

\* ToBoolean
IsTruthy(v) ==
    IF v.kind = "undefined" THEN FALSE
    ELSE IF v.kind = "number" THEN v.num # 0
    ELSE IF v.kind = "string" THEN Len(v.text) > 0
    ELSE TRUE

\* ToString (of the language) of a value that is not undefined; a built-in function gives its
\* source text as the engine of the build (V8) prints it
JsToString(v) ==
    IF v.kind = "number"
    THEN (IF v.num < 0 THEN <<"-">> ELSE <<>>) \o NatToString(IF v.num < 0 THEN -v.num ELSE v.num)
    ELSE IF v.kind = "string" THEN v.text
    ELSE IF v.kind = "function"
    THEN <<"f", "u", "n", "c", "t", "i", "o", "n", " ">> \o v.text \o <<"(", ")", " ", "{", " ", "[", "n", "a", "t", "i", "v", "e", " ", "c", "o", "d", "e", "]", " ", "}">>
    ELSE <<"[", "o", "b", "j", "e", "c", "t", " ", "O", "b", "j", "e", "c", "t", "]">>

\* v + 1: a number is added to, anything else is converted to a string and
\* "1" is appended
PlusOne(v) ==
    IF v.kind = "number" THEN NumberValue(v.num + 1)
    ELSE StringValue(JsToString(v) \o <<"1">>)

\* the name of the property __proto__, an accessor of Object.prototype
ProtoName == <<"_", "_", "p", "r", "o", "t", "o", "_", "_">>

ConstructorName == <<"c", "o", "n", "s", "t", "r", "u", "c", "t", "o", "r">>

\* the names of the methods of Object.prototype other than constructor; the
\* function each holds is named as the property
PrototypeMethodNames ==
    {<<"_", "_", "d", "e", "f", "i", "n", "e", "G", "e", "t", "t", "e", "r", "_", "_">>,
     <<"_", "_", "d", "e", "f", "i", "n", "e", "S", "e", "t", "t", "e", "r", "_", "_">>,
     <<"h", "a", "s", "O", "w", "n", "P", "r", "o", "p", "e", "r", "t", "y">>,
     <<"_", "_", "l", "o", "o", "k", "u", "p", "G", "e", "t", "t", "e", "r", "_", "_">>,
     <<"_", "_", "l", "o", "o", "k", "u", "p", "S", "e", "t", "t", "e", "r", "_", "_">>,
     <<"i", "s", "P", "r", "o", "t", "o", "t", "y", "p", "e", "O", "f">>,
     <<"p", "r", "o", "p", "e", "r", "t", "y", "I", "s", "E", "n", "u", "m", "e", "r", "a", "b", "l", "e">>,
     <<"t", "o", "S", "t", "r", "i", "n", "g">>,
     <<"v", "a", "l", "u", "e", "O", "f">>,
     <<"t", "o", "L", "o", "c", "a", "l", "e", "S", "t", "r", "i", "n", "g">>}

HasOwnProperty(obj, k) == \E i \in 1..Len(obj) : obj[i].name = k

\* k in obj: an own property or one inherited from Object.prototype
HasProperty(obj, k) ==
    \/ HasOwnProperty(obj, k)
    \/ k = ProtoName \/ k = ConstructorName \/ k \in PrototypeMethodNames

\* obj[k]: the own property, else the one of Object.prototype, else undefined
GetProperty(obj, k) ==
    IF HasOwnProperty(obj, k)
    THEN obj[CHOOSE i \in 1..Len(obj) : obj[i].name = k].value
    ELSE IF k = ProtoName THEN ObjectPrototype
    ELSE IF k = ConstructorName THEN FunctionValue(<<"O", "b", "j", "e", "c", "t">>)
    ELSE IF k \in PrototypeMethodNames THEN FunctionValue(k)
    ELSE Undefined

\* obj[k] = v for a number or string v: an existing property keeps its place,
\* a new one is created last; the setter of __proto__ ignores such a value
SetProperty(obj, k, v) ==
    IF HasOwnProperty(obj, k)
    THEN [i \in 1..Len(obj) |-> IF obj[i].name = k THEN [name |-> k, value |-> v] ELSE obj[i]]
    ELSE IF k = ProtoName THEN obj
    ELSE Append(obj, [name |-> k, value |-> v])

RECURSIVE SortIndexProperties(_)
SortIndexProperties(ps) ==
    IF Len(ps) = 0 THEN <<>>
    ELSE LET m == CHOOSE i \in 1..Len(ps) :
                      \A j \in 1..Len(ps) : j # i => IndexLess(ps[i].name, ps[j].name)
             IsRest(p) == p.name # ps[m].name
         IN <<ps[m]>> \o SortIndexProperties(SelectSeq(ps, IsRest))

\* Object.entries: own properties whose key is an array index first, in
\* ascending numeric order, then the other string keys in creation order
ObjectEntries(obj) ==
    LET IsIndex(p) == IsArrayIndex(p.name)
        IsOther(p) == ~IsArrayIndex(p.name)
    IN SortIndexProperties(SelectSeq(obj, IsIndex)) \o SelectSeq(obj, IsOther)

----------------------------------------------------------------------------
(* SurveyResults: getQuestionAnalytics.                                    *)

\* answers.filter((a) => a.question_id === question.id)
questionAnswers(question, ans) ==
    LET Mine(a) == a.question_id = question.id
    IN SelectSeq(ans, Mine)

\* questionAnswers.reduce((acc, answer) => { acc[v] = (acc[v] || 0) + 1 }, {})
RECURSIVE counts(_, _)
counts(qa, acc) ==
    IF Len(qa) = 0 THEN acc
    ELSE LET v == Head(qa).answer_value
             old == IF IsTruthy(GetProperty(acc, v)) THEN GetProperty(acc, v)
                    ELSE NumberValue(0)
         IN counts(Tail(qa), SetProperty(acc, v, PlusOne(old)))

\* ratings.reduce((sum, r) => sum + r, 0)
RECURSIVE sumRatings(_, _)
sumRatings(ratings, sum) ==
    IF Len(ratings) = 0 THEN sum
    ELSE sumRatings(Tail(ratings), Plus(sum, Head(ratings)))

ratingAverage(ratings) ==
    IF Len(ratings) > 0
    THEN toFixed1(Divide(sumRatings(ratings, Num(0)), Len(ratings)))
    ELSE <<"0">>

getQuestionAnalytics(question, ans) ==
    LET qa == questionAnswers(question, ans)
    IN IF question.type = "multiple_choice" \/ question.type = "dropdown"
       THEN ObjectEntries(counts(qa, <<>>))
       ELSE IF question.type = "rating"
       THEN LET ratings == [i \in 1..Len(qa) |-> parseInt(qa[i].answer_value)]
            IN [average |-> ratingAverage(ratings), total |-> Len(ratings)]
       ELSE [i \in 1..Len(qa) |-> qa[i].answer_value]

----------------------------------------------------------------------------
(* The store: rows of the tables and the queries the pages issue.          *)

SurveyStatuses == {"draft", "published", "closed", "archived"}

QuestionTypes == {"multiple_choice", "rating", "short_text", "long_text", "dropdown"}

\* SurveyRow writing archived whatever status the insert was given
SurveyRow_Archived(id, title, description, status) ==
    [id |-> id, title |-> title, description |-> description, status |-> "archived"]

SurveyRow(id, title, description, status) ==
    [id |-> id, title |-> title, description |-> description, status |-> status]

QuestionRow(id, survey_id, type, text, options, required, order_index) ==
    [id |-> id, survey_id |-> survey_id, type |-> type, text |-> text,
     options |-> options, required |-> required, order_index |-> order_index]

\* a set of rows as the sequence .order("order_index") returns (ascending)
RECURSIVE OrderByIndex(_)
OrderByIndex(rows) ==
    IF rows = {} THEN <<>>
    ELSE LET first == CHOOSE r \in rows :
                          \A o \in rows : r.order_index <= o.order_index
         IN <<first>> \o OrderByIndex(rows \ {first})

\* SelectPublishedSurvey without the filter on status
SelectSurveyAnyStatus(id) == {r \in surveys : r.id = id}

\* from("surveys").select("*").eq("id", id).eq("status", "published")
SelectPublishedSurvey(id) == {r \in surveys : r.id = id /\ r.status = "published"}

\* from("questions").select("*").eq("survey_id", id).order("order_index")
SelectQuestions(id) == OrderByIndex({q \in questions : q.survey_id = id})

\* from("responses").select("id").eq("survey_id", id), and its length
SelectResponses(id) == {r \in responses : r.survey_id = id}
responseCount(id) == Cardinality(SelectResponses(id))

\* responses.survey_id REFERENCES surveys(id)
SurveyExists(id) == \E r \in surveys : r.id = id

----------------------------------------------------------------------------
(* TakeSurvey.  Each session s in DOMAIN ts_id is one mounted page; ts_pc  *)
(* is the await at which its running handler stands.                       *)

Sessions == DOMAIN ts_id

EmptyRecord == [k \in {} |-> <<>>]

\* { ...answers, [question.id]: value }
SetAnswer(rec, qid, v) == [k \in (DOMAIN rec) \cup {qid} |-> IF k = qid THEN v ELSE rec[k]]

\* the page shows the form: neither the spinner nor the thank-you card
FormRendered(s) == ~ts_loading[s] /\ ~ts_submitted[s]

ToastNotFound == "Survey not found or unavailable"
ToastRequired == "Please answer all required questions"
ToastSubmitFailed == "Failed to submit survey"
ToastSubmitted == "Survey submitted successfully!"

\* fetchSurvey, both queries answered without error
fetchSurveyOk(s) ==
    /\ ts_pc[s] = "fetchSurvey"
    /\ SelectPublishedSurvey(ts_id[s]) # {}
    /\ ts_survey' = [ts_survey EXCEPT ![s] =
                        Some(CHOOSE r \in SelectPublishedSurvey(ts_id[s]) : TRUE)]
    /\ ts_questions' = [ts_questions EXCEPT ![s] = SelectQuestions(ts_id[s])]
    /\ ts_loading' = [ts_loading EXCEPT ![s] = FALSE]
    /\ ts_pc' = [ts_pc EXCEPT ![s] = "idle"]
    /\ UNCHANGED <<ts_id, ts_answers, ts_submitting, ts_submitted, ts_toast,
                   ts_closure, ts_response>>
    /\ UNCHANGED <<storeVars, csVars, tpVars, srVars>>

\* fetchSurvey, .single() found no published row (surveyError)
fetchSurveyNotFound(s) ==
    /\ ts_pc[s] = "fetchSurvey"
    /\ SelectPublishedSurvey(ts_id[s]) = {}
    /\ ts_toast' = [ts_toast EXCEPT ![s] = ToastNotFound]
    /\ ts_loading' = [ts_loading EXCEPT ![s] = FALSE]
    /\ ts_pc' = [ts_pc EXCEPT ![s] = "idle"]
    /\ UNCHANGED <<ts_id, ts_survey, ts_questions, ts_answers, ts_submitting,
                   ts_submitted, ts_closure, ts_response>>
    /\ UNCHANGED <<storeVars, csVars, tpVars, srVars>>

\* fetchSurvey, a query failed in the store or on the way to it
fetchSurveyStoreError(s) ==
    /\ ts_pc[s] = "fetchSurvey"
    /\ ts_toast' = [ts_toast EXCEPT ![s] = ToastNotFound]
    /\ ts_loading' = [ts_loading EXCEPT ![s] = FALSE]
    /\ ts_pc' = [ts_pc EXCEPT ![s] = "idle"]
    /\ UNCHANGED <<ts_id, ts_survey, ts_questions, ts_answers, ts_submitting,
                   ts_submitted, ts_closure, ts_response>>
    /\ UNCHANGED <<storeVars, csVars, tpVars, srVars>>

RatingInputs == {<<"1">>, <<"2">>, <<"3">>, <<"4">>, <<"5">>}

\* what a text box can be changed to
TextInputs == {<<>>, <<"x">>}

\* value={answers[question.id] || ""}
Displayed(s, q) == IF q.id \in DOMAIN ts_answers[s] THEN ts_answers[s][q.id] ELSE <<>>

\* renderQuestion: the values the control of a question can hand to setAnswers
InputsFor(s, q) ==
    IF q.type = "multiple_choice" \/ q.type = "dropdown"
    THEN IF q.options = Null THEN {}
         ELSE {q.options[1][i] : i \in 1..Len(q.options[1])} \ {Displayed(s, q)}
    ELSE IF q.type = "rating" THEN RatingInputs
    ELSE IF q.type = "short_text" \/ q.type = "long_text"
    THEN TextInputs \ {Displayed(s, q)}
    ELSE {}

\* setAnswers({ ...answers, [question.id]: value })
recordAnswer(s) ==
    /\ FormRendered(s)
    /\ \E i \in 1..Len(ts_questions[s]) :
         \E v \in InputsFor(s, ts_questions[s][i]) :
            ts_answers' = [ts_answers EXCEPT ![s] = SetAnswer(@, ts_questions[s][i].id, v)]
    /\ UNCHANGED <<ts_id, ts_survey, ts_questions, ts_loading, ts_submitting,
                   ts_submitted, ts_toast, ts_pc, ts_closure, ts_response>>
    /\ UNCHANGED <<storeVars, csVars, tpVars, srVars>>

\* missingAnswers testing the presence of the key instead of the value
missingAnswers_KeyOnly(s) ==
    LET Required(q) == q.required
        Missing(q) == q.id \notin DOMAIN ts_answers[s]
    IN SelectSeq(SelectSeq(ts_questions[s], Required), Missing)

\* questions.filter((q) => q.required).filter((q) => !answers[q.id])
missingAnswers(s) ==
    LET Required(q) == q.required
        Missing(q) == ~(q.id \in DOMAIN ts_answers[s] /\ Truthy(ts_answers[s][q.id]))
    IN SelectSeq(SelectSeq(ts_questions[s], Required), Missing)

\* the Submit button is shown and enabled
CanClickSubmit(s) == FormRendered(s) /\ ~ts_submitting[s]

\* handleSubmit, required answers missing: toast and return
handleSubmitInvalid(s) ==
    /\ CanClickSubmit(s)
    /\ Len(missingAnswers(s)) > 0
    /\ ts_toast' = [ts_toast EXCEPT ![s] = ToastRequired]
    /\ UNCHANGED <<ts_id, ts_survey, ts_questions, ts_answers, ts_loading,
                   ts_submitting, ts_submitted, ts_pc, ts_closure, ts_response>>
    /\ UNCHANGED <<storeVars, csVars, tpVars, srVars>>

\* inserts of rows into responses the sessions have requested or made
ResponsesInFlight == Cardinality({s \in Sessions : ts_pc[s] = "insertResponse"})

\* handleSubmit up to its first await: the responses insert is requested.  The
\* handler keeps the answers of the render it was created in.
handleSubmitStart(s) ==
    /\ CanClickSubmit(s)
    /\ Len(missingAnswers(s)) = 0
    /\ Cardinality(responses) + ResponsesInFlight < MaxResponses
    /\ ts_submitting' = [ts_submitting EXCEPT ![s] = TRUE]
    /\ ts_closure' = [ts_closure EXCEPT ![s] = ts_answers[s]]
    /\ ts_response' = [ts_response EXCEPT ![s] = Null]
    /\ ts_pc' = [ts_pc EXCEPT ![s] = "insertResponse"]
    /\ UNCHANGED <<ts_id, ts_survey, ts_questions, ts_answers, ts_loading,
                   ts_submitted, ts_toast>>
    /\ UNCHANGED <<storeVars, csVars, tpVars, srVars>>

handleSubmit(s) == handleSubmitInvalid(s) \/ handleSubmitStart(s)

\* answersToInsert referencing the response row inserted last, of any session
answersToInsert_LastResponse(response, rec) ==
    {[response_id |-> nextId - 1, question_id |-> k, answer_value |-> rec[k]] :
        k \in DOMAIN rec}

\* Object.entries(answers).map(...): the rows of one response
answersToInsert(response, rec) ==
    {[response_id |-> response.id, question_id |-> k, answer_value |-> rec[k]] :
        k \in DOMAIN rec}

\* the responses insert succeeded; the answers insert is requested
insertResponseOk(s) ==
    /\ ts_pc[s] = "insertResponse"
    /\ SurveyExists(ts_id[s])
    /\ LET response == [id |-> nextId, survey_id |-> ts_id[s]]
       IN /\ responses' = responses \cup {response}
          /\ ts_response' = [ts_response EXCEPT ![s] = Some(response)]
    /\ nextId' = nextId + 1
    /\ ts_pc' = [ts_pc EXCEPT ![s] = "insertAnswers"]
    /\ UNCHANGED <<ts_id, ts_survey, ts_questions, ts_answers, ts_loading,
                   ts_submitting, ts_submitted, ts_toast, ts_closure>>
    /\ UNCHANGED <<surveys, questions, answers, survey_templates, csVars, tpVars, srVars>>

\* the catch of handleSubmit without its finally: submitting is left set
submitFailed_NoFinally(s) ==
    /\ ts_toast' = [ts_toast EXCEPT ![s] = ToastSubmitFailed]
    /\ ts_pc' = [ts_pc EXCEPT ![s] = "idle"]
    /\ UNCHANGED <<ts_id, ts_survey, ts_questions, ts_answers, ts_loading,
                   ts_submitting, ts_submitted, ts_closure, ts_response>>
    /\ UNCHANGED <<storeVars, csVars, tpVars, srVars>>

\* catch and finally of handleSubmit
submitFailed(s) ==
    /\ ts_toast' = [ts_toast EXCEPT ![s] = ToastSubmitFailed]
    /\ ts_submitting' = [ts_submitting EXCEPT ![s] = FALSE]
    /\ ts_pc' = [ts_pc EXCEPT ![s] = "idle"]
    /\ UNCHANGED <<ts_id, ts_survey, ts_questions, ts_answers, ts_loading,
                   ts_submitted, ts_closure, ts_response>>
    /\ UNCHANGED <<storeVars, csVars, tpVars, srVars>>

\* the responses insert failed (responseError)
insertResponseError(s) ==
    /\ ts_pc[s] = "insertResponse"
    /\ submitFailed(s)

\* the answers insert succeeded
insertAnswersOk(s) ==
    /\ ts_pc[s] = "insertAnswers"
    /\ answers' = answers \cup answersToInsert(ts_response[s][1], ts_closure[s])
    /\ ts_submitted' = [ts_submitted EXCEPT ![s] = TRUE]
    /\ ts_toast' = [ts_toast EXCEPT ![s] = ToastSubmitted]
    /\ ts_submitting' = [ts_submitting EXCEPT ![s] = FALSE]
    /\ ts_pc' = [ts_pc EXCEPT ![s] = "idle"]
    /\ UNCHANGED <<ts_id, ts_survey, ts_questions, ts_answers, ts_loading,
                   ts_closure, ts_response>>
    /\ UNCHANGED <<surveys, questions, responses, survey_templates, nextId,
                   csVars, tpVars, srVars>>

\* the answers insert failed (answersError); the response row stays
insertAnswersError(s) ==
    /\ ts_pc[s] = "insertAnswers"
    /\ submitFailed(s)

\* const progress = (Object.keys(answers).length / questions.length) * 100,
\* evaluated when the form is rendered: 0 / 0 is NaN, k / 0 is Infinity (den 0)
progress(s) ==
    LET k == Cardinality(DOMAIN ts_answers[s])
        n == Len(ts_questions[s])
    IN IF n = 0
       THEN IF k = 0 THEN NaN ELSE [nan |-> FALSE, num |-> 1, den |-> 0]
       ELSE [nan |-> FALSE, num |-> k * 100, den |-> n]

----------------------------------------------------------------------------
(* CreateSurvey.  cs_pc is the await at which saveSurvey stands and cs_gpc *)
(* the await at which generateWithAI stands.  cs_insert is the row the     *)
(* pending surveys insert was given.  A running save reads the questions   *)
(* array of the render it was started in (cs_closure).  The page is edited *)
(* while a save is in flight, but not behind the open AI dialog, which is  *)
(* modal.  The handlers copy the array and not always the objects in it:   *)
(* cs_shared[j].obj is the place in cs_questions of the object that is     *)
(* cs_closure[j], and cs_shared[j].arr the place of the question whose     *)
(* options array is the one of cs_closure[j]; 0 when there is none.        *)

BuilderQuestion(type, text, options, required, order_index) ==
    [type |-> type, text |-> text, options |-> options, required |-> required,
     order_index |-> order_index]

\* useState<Question[]>([...]): the list the page starts with
InitialQuestions == <<BuilderQuestion("multiple_choice", <<>>, Some(<<<<>>>>), TRUE, 0)>>

\* the inputs of the page are shown and can be reached
Editing == cs_pc \in {"idle", "insertSurvey", "insertQuestions"} /\ ~cs_isAiDialogOpen

\* nothing of the running save is shared with the state any more
Unshared(n) == [j \in 1..n |-> [obj |-> 0, arr |-> 0]]

\* the places of the shared objects and arrays after the question at place i
\* has left the list
SharedAfterRemove(i) ==
    LET Moved(k) == IF k = i THEN 0 ELSE IF k > i THEN k - 1 ELSE k
    IN [j \in 1..Len(cs_shared) |->
           [obj |-> Moved(cs_shared[j].obj), arr |-> Moved(cs_shared[j].arr)]]

\* the object at place i of the list was replaced by a copy: { ...updated[i] }
SharedAfterCopy(i) ==
    [j \in 1..Len(cs_shared) |->
        [cs_shared[j] EXCEPT !.obj = IF @ = i THEN 0 ELSE @]]

\* the question at place i was assigned a new options array: the running save
\* sees it if it holds the same object, and otherwise keeps the old array
ClosureAfterAssign(i, options) ==
    [j \in 1..Len(cs_closure) |->
        IF cs_shared[j].obj = i THEN [cs_closure[j] EXCEPT !.options = options]
        ELSE cs_closure[j]]

SharedAfterAssign(i) ==
    [j \in 1..Len(cs_shared) |->
        [cs_shared[j] EXCEPT !.arr = IF @ = i /\ cs_shared[j].obj # i THEN 0 ELSE @]]

\* the options array of the question at place i was written in place: the
\* running save sees it if it holds the same array
ClosureAfterWrite(i, options) ==
    [j \in 1..Len(cs_closure) |->
        IF cs_shared[j].arr = i THEN [cs_closure[j] EXCEPT !.options = options]
        ELSE cs_closure[j]]

\* setTitle(e.target.value)
setTitle(v) ==
    /\ Editing
    /\ v # cs_title
    /\ cs_title' = v
    /\ UNCHANGED <<cs_description, cs_questions, cs_saving, cs_toast, cs_pc, cs_survey,
                   cs_status, cs_insert, cs_closure, cs_shared, csAiVars>>
    /\ UNCHANGED <<storeVars, tsVars, tpVars, srVars>>

\* setDescription(e.target.value)
setDescription(v) ==
    /\ Editing
    /\ v # cs_description
    /\ cs_description' = v
    /\ UNCHANGED <<cs_title, cs_questions, cs_saving, cs_toast, cs_pc, cs_survey,
                   cs_status, cs_insert, cs_closure, cs_shared, csAiVars>>
    /\ UNCHANGED <<storeVars, tsVars, tpVars, srVars>>

\* addQuestion appending a required question, as the one the page starts with
addQuestion_Required ==
    /\ Editing
    /\ Len(cs_questions) < MaxQuestions
    /\ cs_questions' = Append(cs_questions,
           BuilderQuestion("multiple_choice", <<>>, Some(<<<<>>>>), TRUE, Len(cs_questions)))
    /\ UNCHANGED <<cs_title, cs_description, cs_saving, cs_toast, cs_pc, cs_survey,
                   cs_status, cs_insert, cs_closure, cs_shared, csAiVars>>
    /\ UNCHANGED <<storeVars, tsVars, tpVars, srVars>>

\* setQuestions([...questions, { type: "multiple_choice", ... }])
addQuestion ==
    /\ Editing
    /\ Len(cs_questions) < MaxQuestions
    /\ cs_questions' = Append(cs_questions,
           BuilderQuestion("multiple_choice", <<>>, Some(<<<<>>>>), FALSE, Len(cs_questions)))
    /\ UNCHANGED <<cs_title, cs_description, cs_saving, cs_toast, cs_pc, cs_survey,
                   cs_status, cs_insert, cs_closure, cs_shared, csAiVars>>
    /\ UNCHANGED <<storeVars, tsVars, tpVars, srVars>>

\* questions.filter((_, i) => i !== index); the button is shown while the list
\* has more than one question
removeQuestion(index) ==
    /\ Editing
    /\ Len(cs_questions) > 1
    /\ index \in 0..(Len(cs_questions) - 1)
    /\ cs_questions' = [i \in 1..(Len(cs_questions) - 1) |->
                           IF i <= index THEN cs_questions[i] ELSE cs_questions[i + 1]]
    /\ cs_shared' = SharedAfterRemove(index + 1)
    /\ UNCHANGED <<cs_title, cs_description, cs_saving, cs_toast, cs_pc, cs_survey,
                   cs_status, cs_insert, cs_closure, csAiVars>>
    /\ UNCHANGED <<storeVars, tsVars, tpVars, srVars>>

\* updated[index] = { ...updated[index], [field]: value }
updateQuestion(index, field, value) ==
    /\ Editing
    /\ index \in 0..(Len(cs_questions) - 1)
    /\ cs_questions[index + 1][field] # value
    /\ cs_questions' = [cs_questions EXCEPT ![index + 1][field] = value]
    /\ cs_shared' = SharedAfterCopy(index + 1)
    /\ UNCHANGED <<cs_title, cs_description, cs_saving, cs_toast, cs_pc, cs_survey,
                   cs_status, cs_insert, cs_closure, csAiVars>>
    /\ UNCHANGED <<storeVars, tsVars, tpVars, srVars>>

\* the options of a question as an array: options || []
OptionsOrEmpty(q) == IF q.options = Null THEN <<>> ELSE q.options[1]

\* the option inputs are shown for the choice types
OptionsShown(q) == q.type = "multiple_choice" \/ q.type = "dropdown"

\* updated[questionIndex].options = [...(options || []), ""]
addOption(questionIndex) ==
    /\ Editing
    /\ questionIndex \in 0..(Len(cs_questions) - 1)
    /\ OptionsShown(cs_questions[questionIndex + 1])
    /\ Len(OptionsOrEmpty(cs_questions[questionIndex + 1])) < MaxOptions
    /\ LET options == Some(Append(OptionsOrEmpty(cs_questions[questionIndex + 1]), <<>>))
       IN /\ cs_questions' = [cs_questions EXCEPT ![questionIndex + 1].options = options]
          /\ cs_closure' = ClosureAfterAssign(questionIndex + 1, options)
          /\ cs_shared' = SharedAfterAssign(questionIndex + 1)
    /\ UNCHANGED <<cs_title, cs_description, cs_saving, cs_toast, cs_pc, cs_survey,
                   cs_status, cs_insert, csAiVars>>
    /\ UNCHANGED <<storeVars, tsVars, tpVars, srVars>>

\* updated[questionIndex].options![optionIndex] = value
updateOption(questionIndex, optionIndex, value) ==
    /\ Editing
    /\ questionIndex \in 0..(Len(cs_questions) - 1)
    /\ OptionsShown(cs_questions[questionIndex + 1])
    /\ optionIndex \in 0..(Len(OptionsOrEmpty(cs_questions[questionIndex + 1])) - 1)
    /\ cs_questions[questionIndex + 1].options[1][optionIndex + 1] # value
    /\ cs_questions' = [cs_questions EXCEPT
                           ![questionIndex + 1].options[1][optionIndex + 1] = value]
    /\ cs_closure' = ClosureAfterWrite(questionIndex + 1,
                                       cs_questions'[questionIndex + 1].options)
    /\ UNCHANGED <<cs_title, cs_description, cs_saving, cs_toast, cs_pc, cs_survey,
                   cs_status, cs_insert, cs_shared, csAiVars>>
    /\ UNCHANGED <<storeVars, tsVars, tpVars, srVars>>

\* options!.filter((_, i) => i !== optionIndex); the button is shown while the
\* question has more than one option
removeOption(questionIndex, optionIndex) ==
    /\ Editing
    /\ questionIndex \in 0..(Len(cs_questions) - 1)
    /\ OptionsShown(cs_questions[questionIndex + 1])
    /\ Len(OptionsOrEmpty(cs_questions[questionIndex + 1])) > 1
    /\ optionIndex \in 0..(Len(OptionsOrEmpty(cs_questions[questionIndex + 1])) - 1)
    /\ LET old == cs_questions[questionIndex + 1].options[1]
           options == Some([i \in 1..(Len(old) - 1) |->
                               IF i <= optionIndex THEN old[i] ELSE old[i + 1]])
       IN /\ cs_questions' = [cs_questions EXCEPT ![questionIndex + 1].options = options]
          /\ cs_closure' = ClosureAfterAssign(questionIndex + 1, options)
          /\ cs_shared' = SharedAfterAssign(questionIndex + 1)
    /\ UNCHANGED <<cs_title, cs_description, cs_saving, cs_toast, cs_pc, cs_survey,
                   cs_status, cs_insert, csAiVars>>
    /\ UNCHANGED <<storeVars, tsVars, tpVars, srVars>>

ToastNoPrompt == "Please enter a prompt"
ToastGenerated == "Questions generated successfully!"
ToastGenerateFailed == "Failed to generate questions"

\* onOpenChange of the AI dialog: the trigger opens it, Escape closes it
setIsAiDialogOpen(open) ==
    /\ cs_pc \in {"idle", "insertSurvey", "insertQuestions"}
    /\ cs_isAiDialogOpen # open
    /\ cs_isAiDialogOpen' = open
    /\ UNCHANGED <<cs_title, cs_description, cs_questions, cs_saving, cs_toast,
                   cs_pc, cs_survey, cs_status, cs_insert, cs_closure, cs_shared,
                   cs_aiPrompt, cs_isGenerating, cs_gpc>>
    /\ UNCHANGED <<storeVars, tsVars, tpVars, srVars>>

\* setAiPrompt(e.target.value): the prompt box of the open dialog, while the
\* page is mounted (navigate("/") after a save unmounts it)
setAiPrompt(v) ==
    /\ cs_pc \in {"idle", "insertSurvey", "insertQuestions"}
    /\ cs_isAiDialogOpen
    /\ v # cs_aiPrompt
    /\ cs_aiPrompt' = v
    /\ UNCHANGED <<cs_title, cs_description, cs_questions, cs_saving, cs_toast,
                   cs_pc, cs_survey, cs_status, cs_insert, cs_closure, cs_shared,
                   cs_isAiDialogOpen, cs_isGenerating, cs_gpc>>
    /\ UNCHANGED <<storeVars, tsVars, tpVars, srVars>>

\* the Generate button of the dialog is shown and enabled: the page is
\* mounted, the dialog open and no generation running
CanClickGenerate ==
    /\ cs_pc \in {"idle", "insertSurvey", "insertQuestions"}
    /\ cs_isAiDialogOpen
    /\ ~cs_isGenerating

\* generateWithAI, the prompt is blank: toast and return
generateWithAINoPrompt ==
    /\ CanClickGenerate
    /\ ~Truthy(Trim(cs_aiPrompt))
    /\ cs_toast' = ToastNoPrompt
    /\ UNCHANGED <<cs_title, cs_description, cs_questions, cs_saving, cs_pc,
                   cs_survey, cs_status, cs_insert, cs_closure, cs_shared,
                   csAiVars>>
    /\ UNCHANGED <<storeVars, tsVars, tpVars, srVars>>

\* generateWithAI up to its await: the generation endpoint is invoked
generateWithAIStart ==
    /\ CanClickGenerate
    /\ Truthy(Trim(cs_aiPrompt))
    /\ cs_isGenerating' = TRUE
    /\ cs_gpc' = "invoke"
    /\ UNCHANGED <<cs_title, cs_description, cs_questions, cs_saving, cs_toast,
                   cs_pc, cs_survey, cs_status, cs_insert, cs_closure, cs_shared,
                   cs_aiPrompt, cs_isAiDialogOpen>>
    /\ UNCHANGED <<storeVars, tsVars, tpVars, srVars>>

generateWithAI == generateWithAINoPrompt \/ generateWithAIStart

\* generatedQuestions keeping the order_index the endpoint supplied
generatedQuestions_KeepIndex(list) == list

\* data.questions.map((q, index) => ({ ...q, order_index: index }))
generatedQuestions(list) ==
    [i \in 1..Len(list) |-> [list[i] EXCEPT !.order_index = i - 1]]

\* the endpoint answered with a list of questions
generateOk(list) ==
    /\ cs_gpc = "invoke"
    /\ cs_questions' = generatedQuestions(list)
    /\ cs_toast' = ToastGenerated
    /\ cs_isAiDialogOpen' = FALSE
    /\ cs_aiPrompt' = <<>>
    /\ cs_isGenerating' = FALSE
    /\ cs_gpc' = "idle"
    /\ cs_shared' = Unshared(Len(cs_shared))
    /\ UNCHANGED <<cs_title, cs_description, cs_saving, cs_pc, cs_survey,
                   cs_status, cs_insert, cs_closure>>
    /\ UNCHANGED <<storeVars, tsVars, tpVars, srVars>>

\* the endpoint answered without error and without questions: only the finally
generateNoQuestions ==
    /\ cs_gpc = "invoke"
    /\ cs_isGenerating' = FALSE
    /\ cs_gpc' = "idle"
    /\ UNCHANGED <<cs_title, cs_description, cs_questions, cs_saving, cs_toast,
                   cs_pc, cs_survey, cs_status, cs_insert, cs_closure, cs_shared,
                   cs_aiPrompt, cs_isAiDialogOpen>>
    /\ UNCHANGED <<storeVars, tsVars, tpVars, srVars>>

\* generateFailed without the finally block
generateFailed_NoFinally(message) ==
    /\ cs_toast' = IF message # "" THEN message ELSE ToastGenerateFailed
    /\ cs_gpc' = "idle"
    /\ UNCHANGED <<cs_title, cs_description, cs_questions, cs_saving, cs_pc,
                   cs_survey, cs_status, cs_insert, cs_closure, cs_shared,
                   cs_aiPrompt, cs_isAiDialogOpen, cs_isGenerating>>
    /\ UNCHANGED <<storeVars, tsVars, tpVars, srVars>>

\* catch and finally of generateWithAI: toast.error(error.message || "Failed ...")
generateFailed(message) ==
    /\ cs_toast' = IF message # "" THEN message ELSE ToastGenerateFailed
    /\ cs_isGenerating' = FALSE
    /\ cs_gpc' = "idle"
    /\ UNCHANGED <<cs_title, cs_description, cs_questions, cs_saving, cs_pc,
                   cs_survey, cs_status, cs_insert, cs_closure, cs_shared,
                   cs_aiPrompt, cs_isAiDialogOpen>>
    /\ UNCHANGED <<storeVars, tsVars, tpVars, srVars>>

\* the invocation of the endpoint failed (error)
generateError(message) == cs_gpc = "invoke" /\ generateFailed(message)

ToastNoTitle == "Please enter a survey title"
ToastNoText == "All questions must have text"
ToastSaveFailed == "Failed to save survey"
ToastSavedDraft == "Survey saved as draft successfully!"
ToastPublished == "Survey published successfully!"

\* titleMissing without the trim
titleMissing_NoTrim == ~Truthy(cs_title)

\* !title.trim()
titleMissing == ~Truthy(Trim(cs_title))

\* questions.some((q) => !q.text.trim())
someQuestionWithoutText ==
    \E i \in 1..Len(cs_questions) : ~Truthy(Trim(cs_questions[i].text))

\* saveSurvey, the title check fails: toast and return
saveSurveyNoTitle(status) ==
    /\ cs_pc = "idle" /\ ~cs_saving /\ ~cs_isAiDialogOpen
    /\ titleMissing
    /\ cs_toast' = ToastNoTitle
    /\ UNCHANGED <<cs_title, cs_description, cs_questions, cs_saving, cs_pc,
                   cs_survey, cs_status, cs_insert, cs_closure, cs_shared,
                   csAiVars>>
    /\ UNCHANGED <<storeVars, tsVars, tpVars, srVars>>

\* saveSurvey, the question text check fails: toast and return
saveSurveyNoText(status) ==
    /\ cs_pc = "idle" /\ ~cs_saving /\ ~cs_isAiDialogOpen
    /\ ~titleMissing
    /\ someQuestionWithoutText
    /\ cs_toast' = ToastNoText
    /\ UNCHANGED <<cs_title, cs_description, cs_questions, cs_saving, cs_pc,
                   cs_survey, cs_status, cs_insert, cs_closure, cs_shared,
                   csAiVars>>
    /\ UNCHANGED <<storeVars, tsVars, tpVars, srVars>>

\* inserts of rows into surveys the pages have requested
SurveysInFlight ==
    (IF cs_pc = "insertSurvey" THEN 1 ELSE 0)
    + Cardinality({r \in 1..Len(tp_runs) : tp_runs[r].pc = "insertSurvey"})

\* saveSurvey up to its first await: the surveys insert is requested
saveSurveyStart(status) ==
    /\ cs_pc = "idle" /\ ~cs_saving /\ ~cs_isAiDialogOpen
    /\ ~titleMissing
    /\ ~someQuestionWithoutText
    /\ Cardinality(surveys) + SurveysInFlight < MaxSurveys
    /\ cs_saving' = TRUE
    /\ cs_status' = status
    /\ cs_survey' = Null
    /\ cs_insert' = Some([title |-> cs_title, description |-> cs_description,
                           status |-> status])
    /\ cs_closure' = cs_questions
    /\ cs_shared' = [j \in 1..Len(cs_questions) |-> [obj |-> j, arr |-> j]]
    /\ cs_pc' = "insertSurvey"
    /\ UNCHANGED <<cs_title, cs_description, cs_questions, cs_toast, csAiVars>>
    /\ UNCHANGED <<storeVars, tsVars, tpVars, srVars>>

saveSurvey(status) ==
    saveSurveyNoTitle(status) \/ saveSurveyNoText(status) \/ saveSurveyStart(status)

\* questionsToInsert holding the row of the first question only
questionsToInsert_FirstOnly(survey, qs, firstId) ==
    {QuestionRow(firstId + i - 1, survey.id, qs[i].type, qs[i].text,
                 IF qs[i].options # Null /\ Len(qs[i].options[1]) > 0
                 THEN qs[i].options ELSE Null,
                 qs[i].required, qs[i].order_index) : i \in 1..Len(qs) \cap {1}}

\* questions.map((q) => ({ survey_id: survey.id, ... })) with the identifiers
\* the store gives the rows
questionsToInsert(survey, qs, firstId) ==
    {QuestionRow(firstId + i - 1, survey.id, qs[i].type, qs[i].text,
                 IF qs[i].options # Null /\ Len(qs[i].options[1]) > 0
                 THEN qs[i].options ELSE Null,
                 qs[i].required, qs[i].order_index) : i \in 1..Len(qs)}

\* the surveys insert succeeded; questionsToInsert is built from the questions
\* the handler holds, as they are now, and the questions insert is requested
\* with it: what the page does later does not reach the request
csInsertSurveyOk ==
    /\ cs_pc = "insertSurvey"
    /\ LET survey == SurveyRow(nextId, cs_insert[1].title, Some(cs_insert[1].description),
                               cs_insert[1].status)
       IN /\ surveys' = surveys \cup {survey}
          /\ cs_survey' = Some(survey)
    /\ nextId' = nextId + 1
    /\ cs_shared' = Unshared(Len(cs_shared))
    /\ cs_pc' = "insertQuestions"
    /\ UNCHANGED <<cs_title, cs_description, cs_questions, cs_saving, cs_toast,
                   cs_status, cs_insert, cs_closure, csAiVars>>
    /\ UNCHANGED <<questions, responses, answers, survey_templates, tsVars, tpVars, srVars>>

\* catch and finally of saveSurvey; the handler and its closure end
saveFailed ==
    /\ cs_toast' = ToastSaveFailed
    /\ cs_saving' = FALSE
    /\ cs_insert' = Null /\ cs_closure' = <<>> /\ cs_shared' = <<>>
    /\ cs_pc' = "idle"
    /\ UNCHANGED <<cs_title, cs_description, cs_questions, cs_survey, cs_status,
                   csAiVars>>
    /\ UNCHANGED <<storeVars, tsVars, tpVars, srVars>>

\* the surveys insert failed (surveyError)
csInsertSurveyError == cs_pc = "insertSurvey" /\ saveFailed

\* the questions insert succeeded: toast, navigate("/")
csInsertQuestionsOk ==
    /\ cs_pc = "insertQuestions"
    /\ questions' = questions \cup questionsToInsert(cs_survey[1], cs_closure, nextId)
    /\ nextId' = nextId + Len(cs_closure)
    /\ cs_toast' = IF cs_status = "draft" THEN ToastSavedDraft ELSE ToastPublished
    /\ cs_saving' = FALSE
    /\ cs_insert' = Null /\ cs_closure' = <<>> /\ cs_shared' = <<>>
    /\ cs_pc' = "left"
    /\ UNCHANGED <<cs_title, cs_description, cs_questions, cs_survey, cs_status,
                   csAiVars>>
    /\ UNCHANGED <<surveys, responses, answers, survey_templates, tsVars, tpVars, srVars>>

\* the questions insert failed (questionsError); the survey row stays
csInsertQuestionsError == cs_pc = "insertQuestions" /\ saveFailed

----------------------------------------------------------------------------
(* Templates.  tp_pc is where the page stands: at the await of             *)
(* fetchTemplates, shown ("idle"), or left by navigate("/").  The Use      *)
(* Template buttons are never disabled, so several calls of useTemplate    *)
(* run side by side: tp_runs holds one record per running call, with its   *)
(* argument template, the survey row it received and the await at which it *)
(* stands.  A call that has ended leaves tp_runs.                          *)

ToastTemplatesFailed == "Failed to load templates"
ToastTemplateUsed == "Survey created from template!"
ToastTemplateFailed == "Failed to create survey from template"

\* a set of template rows as the sequence .order("created_at") returns; rows
\* are created in the order of their identifiers
RECURSIVE OrderByCreation(_)
OrderByCreation(rows) ==
    IF rows = {} THEN <<>>
    ELSE LET first == CHOOSE r \in rows : \A o \in rows : r.id <= o.id
         IN <<first>> \o OrderByCreation(rows \ {first})

fetchTemplatesOk ==
    /\ tp_pc = "fetchTemplates"
    /\ tp_templates' = OrderByCreation(survey_templates)
    /\ tp_pc' = "idle"
    /\ UNCHANGED <<tp_runs, tp_toast>>
    /\ UNCHANGED <<storeVars, tsVars, csVars, srVars>>

fetchTemplatesError ==
    /\ tp_pc = "fetchTemplates"
    /\ tp_toast' = ToastTemplatesFailed
    /\ tp_pc' = "idle"
    /\ UNCHANGED <<tp_templates, tp_runs>>
    /\ UNCHANGED <<storeVars, tsVars, csVars, srVars>>

\* the calls of useTemplate without call r
RunsWithout(r) == [j \in 1..(Len(tp_runs) - 1) |-> IF j < r THEN tp_runs[j] ELSE tp_runs[j + 1]]

\* useTemplate(template) up to its first await: the surveys insert is
\* requested; the button is there while the page shows the templates, whatever
\* the earlier calls are doing
useTemplateStart ==
    /\ tp_pc = "idle"
    /\ Cardinality(surveys) + SurveysInFlight < MaxSurveys
    /\ \E i \in 1..Len(tp_templates) :
          tp_runs' = Append(tp_runs, [template |-> tp_templates[i], survey |-> Null,
                                      pc |-> "insertSurvey"])
    /\ UNCHANGED <<tp_templates, tp_pc, tp_toast>>
    /\ UNCHANGED <<storeVars, tsVars, csVars, srVars>>

\* templateQuestionsToInsert dropping the options of the entries
templateQuestionsToInsert_NoOptions(survey, qs, firstId) ==
    {QuestionRow(firstId + i - 1, survey.id, qs[i].type, qs[i].text, Null,
                 qs[i].required, qs[i].order_index) : i \in 1..Len(qs)}

\* template.template_data.questions.map((q) => ({ survey_id: survey.id, ... }))
\* with the identifiers the store gives the rows; q.options || null
templateQuestionsToInsert(survey, qs, firstId) ==
    {QuestionRow(firstId + i - 1, survey.id, qs[i].type, qs[i].text, qs[i].options,
                 qs[i].required, qs[i].order_index) : i \in 1..Len(qs)}

\* the surveys insert of call r succeeded; the questions insert is requested
tpInsertSurveyOk(r) ==
    /\ r \in 1..Len(tp_runs)
    /\ tp_runs[r].pc = "insertSurvey"
    /\ LET template == tp_runs[r].template
           survey == SurveyRow(nextId, template.name, template.description, "draft")
       IN /\ surveys' = surveys \cup {survey}
          /\ tp_runs' = [tp_runs EXCEPT ![r].survey = Some(survey),
                                        ![r].pc = "insertQuestions"]
    /\ nextId' = nextId + 1
    /\ UNCHANGED <<tp_templates, tp_pc, tp_toast>>
    /\ UNCHANGED <<questions, responses, answers, survey_templates, tsVars, csVars, srVars>>

\* catch of useTemplate in call r
useTemplateFailed(r) ==
    /\ tp_toast' = ToastTemplateFailed
    /\ tp_runs' = RunsWithout(r)
    /\ UNCHANGED <<tp_templates, tp_pc>>
    /\ UNCHANGED <<storeVars, tsVars, csVars, srVars>>

tpInsertSurveyError(r) ==
    /\ r \in 1..Len(tp_runs)
    /\ tp_runs[r].pc = "insertSurvey"
    /\ useTemplateFailed(r)

\* the questions insert of call r succeeded: toast, navigate("/")
tpInsertQuestionsOk(r) ==
    /\ r \in 1..Len(tp_runs)
    /\ tp_runs[r].pc = "insertQuestions"
    /\ LET entries == tp_runs[r].template.template_data.questions
       IN /\ questions' = questions \cup
                 templateQuestionsToInsert(tp_runs[r].survey[1], entries, nextId)
          /\ nextId' = nextId + Len(entries)
    /\ tp_toast' = ToastTemplateUsed
    /\ tp_runs' = RunsWithout(r)
    /\ tp_pc' = "left"
    /\ UNCHANGED tp_templates
    /\ UNCHANGED <<surveys, responses, answers, survey_templates, tsVars, csVars, srVars>>

\* the questions insert of call r failed (questionsError); the survey row stays
tpInsertQuestionsError(r) ==
    /\ r \in 1..Len(tp_runs)
    /\ tp_runs[r].pc = "insertQuestions"
    /\ useTemplateFailed(r)

----------------------------------------------------------------------------
(* SurveyResults: fetchData and exportData.  sr_pc is the await at which   *)
(* fetchData stands, sr_results the errors of the three joined queries and *)
(* sr_request the response identifiers of the answers query, once issued.  *)

ToastLoadFailed == "Failed to load survey results"
ToastExported == "Results exported successfully!"
ToastCopied == "Survey link copied to clipboard!"

\* from("surveys").select("*").eq("id", id); .single() wants exactly one row
SelectSurvey(id) == {r \in surveys : r.id = id}

\* responsesRes.data.map((r) => r.id)
responseIds(rows) == {r.id : r \in rows}

\* The query has no .order(): the store returns the selected rows in an order
\* of its choice.  The orders a set of rows can come in, each row with the
\* columns selected (question_id, answer_value)
RECURSIVE AnswerOrders(_)
AnswerOrders(rows) ==
    IF rows = {} THEN {<<>>}
    ELSE UNION {{<<[question_id |-> r.question_id, answer_value |-> r.answer_value]>> \o rest :
                    rest \in AnswerOrders(rows \ {r})} : r \in rows}

\* SelectAnswers without the filter on response_id
SelectAnswers_Unfiltered(ids) == answers

\* the rows of from("answers").select(...).in("response_id", ids)
SelectAnswers(ids) == {a \in answers : a.response_id \in ids}

\* [surveyRes, questionsRes, responsesRes] of the joined queries: each query
\* can fail on its own, and .single() fails when no row has the identifier
JoinedResults(surveyError, questionsError, responsesError) ==
    [surveyError |-> surveyError \/ SelectSurvey(sr_id) = {},
     questionsError |-> questionsError,
     responsesError |-> responsesError]

\* catch and finally of fetchData
loadFailed ==
    /\ sr_toast' = ToastLoadFailed
    /\ sr_loading' = FALSE
    /\ sr_pc' = "idle"

\* fetchData: surveyRes.error or questionsRes.error is thrown
fetchDataThrown(results) ==
    /\ sr_pc = "fetchData"
    /\ results.surveyError \/ results.questionsError
    /\ sr_results' = Some(results)
    /\ loadFailed
    /\ UNCHANGED <<sr_question, sr_answers, sr_analytics, sr_id, sr_survey, sr_questions,
                   sr_responseCount, sr_request, sr_csv>>
    /\ UNCHANGED <<storeVars, tsVars, csVars, tpVars>>

\* fetchData: responsesRes.data is null or empty; no answers query
fetchDataNoResponses(results) ==
    /\ sr_pc = "fetchData"
    /\ ~results.surveyError /\ ~results.questionsError
    /\ results.responsesError \/ SelectResponses(sr_id) = {}
    /\ sr_results' = Some(results)
    /\ sr_survey' = Some(CHOOSE r \in SelectSurvey(sr_id) : TRUE)
    /\ sr_questions' = SelectQuestions(sr_id)
    /\ sr_responseCount' = 0
    /\ sr_loading' = FALSE
    /\ sr_pc' = "idle"
    /\ UNCHANGED <<sr_question, sr_answers, sr_analytics, sr_id, sr_toast, sr_request,
                   sr_csv>>
    /\ UNCHANGED <<storeVars, tsVars, csVars, tpVars>>

\* fetchData up to its second await: the answers query is issued
fetchDataAnswersRequested(results) ==
    /\ sr_pc = "fetchData"
    /\ ~results.surveyError /\ ~results.questionsError
    /\ ~results.responsesError /\ SelectResponses(sr_id) # {}
    /\ sr_results' = Some(results)
    /\ sr_survey' = Some(CHOOSE r \in SelectSurvey(sr_id) : TRUE)
    /\ sr_questions' = SelectQuestions(sr_id)
    /\ sr_responseCount' = responseCount(sr_id)
    /\ sr_request' = Some(responseIds(SelectResponses(sr_id)))
    /\ sr_pc' = "fetchAnswers"
    /\ UNCHANGED <<sr_question, sr_answers, sr_analytics, sr_id, sr_loading, sr_toast,
                   sr_csv>>
    /\ UNCHANGED <<storeVars, tsVars, csVars, tpVars>>

\* the answers query succeeded: setAnswers(answersData), the rows in the order
\* the store returned them
fetchAnswersOk ==
    /\ sr_pc = "fetchAnswers"
    /\ \E answersData \in AnswerOrders(SelectAnswers(sr_request[1])) :
          sr_answers' = answersData
    /\ sr_loading' = FALSE
    /\ sr_pc' = "idle"
    /\ UNCHANGED <<sr_question, sr_analytics, sr_id, sr_survey, sr_questions,
                   sr_responseCount, sr_toast, sr_results, sr_request, sr_csv>>
    /\ UNCHANGED <<storeVars, tsVars, csVars, tpVars>>

\* the answers query failed (answersError)
fetchAnswersError ==
    /\ sr_pc = "fetchAnswers"
    /\ loadFailed
    /\ UNCHANGED <<sr_question, sr_answers, sr_analytics, sr_id, sr_survey, sr_questions,
                   sr_responseCount, sr_results, sr_request, sr_csv>>
    /\ UNCHANGED <<storeVars, tsVars, csVars, tpVars>>

\* Array.prototype.join of strings; undefined and null have been made ""
RECURSIVE join(_, _)
join(items, separator) ==
    IF Len(items) = 0 THEN <<>>
    ELSE IF Len(items) = 1 THEN items[1]
    ELSE items[1] \o separator \o join(Tail(items), separator)

\* an element of csvRows: a string (items holds it) or an array of strings
StringRow(text) == [array |-> FALSE, items |-> <<text>>]
ArrayRow(items) == [array |-> TRUE, items |-> items]

\* the string join("\n") makes of an element: an array is joined with ","
RowToString(row) == IF row.array THEN join(row.items, <<",">>) ELSE row.items[1]

\* answer.replace(/"/g, '""')
RECURSIVE replaceQuotes(_)
replaceQuotes(answer) ==
    IF Len(answer) = 0 THEN <<>>
    ELSE (IF Head(answer) = "\"" THEN <<"\"", "\"">> ELSE <<Head(answer)>>)
         \o replaceQuotes(Tail(answer))

\* `"${answer.replace(/"/g, '""')}"`
csvQuoted(answer) == <<"\"">> \o replaceQuotes(answer) \o <<"\"">>

\* the elements exportData pushes for one question
questionCsvRows(question, ans) ==
    LET analytics == getQuestionAnalytics(question, ans)
    IN <<ArrayRow(<<question.text>>)>>
       \o (IF question.type = "multiple_choice" \/ question.type = "dropdown"
           THEN [i \in 1..Len(analytics) |->
                    StringRow(join(<<analytics[i].name, JsToString(analytics[i].value)>>,
                                   <<",">>))]
           ELSE IF question.type = "rating"
           THEN <<StringRow(join(<<<<"A", "v", "e", "r", "a", "g", "e", " ",
                                     "R", "a", "t", "i", "n", "g">>,
                                   analytics.average>>, <<",">>))>>
           ELSE [i \in 1..Len(analytics) |-> ArrayRow(<<csvQuoted(analytics[i])>>)])
       \o <<ArrayRow(<<>>)>>

RECURSIVE questionsCsvRows(_, _)
questionsCsvRows(qs, ans) ==
    IF Len(qs) = 0 THEN <<>>
    ELSE questionCsvRows(Head(qs), ans) \o questionsCsvRows(Tail(qs), ans)

\* csvRows of exportData; survey?.title of no survey joins as ""
csvRows ==
    <<StringRow(join(<<<<"S", "u", "r", "v", "e", "y">>,
                       IF sr_survey = Null THEN <<>> ELSE sr_survey[1].title>>, <<",">>)),
      StringRow(join(<<<<"T", "o", "t", "a", "l", " ",
                         "R", "e", "s", "p", "o", "n", "s", "e", "s">>,
                       NatToString(sr_responseCount)>>, <<",">>)),
      ArrayRow(<<>>)>>
    \o questionsCsvRows(sr_questions, sr_answers)

\* csvRows.join("\n")
csvContent == join([i \in 1..Len(csvRows) |-> RowToString(csvRows[i])], <<"\n">>)

\* exportData: the button is enabled while responseCount is not 0; the text is
\* handed to the browser as a download
exportData ==
    /\ sr_pc = "idle" /\ ~sr_loading
    /\ sr_responseCount # 0
    /\ sr_csv' = Some(csvContent)
    /\ sr_toast' = ToastExported
    /\ UNCHANGED <<sr_question, sr_answers, sr_analytics, sr_pc, sr_id, sr_survey,
                   sr_questions, sr_responseCount, sr_loading, sr_results, sr_request>>
    /\ UNCHANGED <<storeVars, tsVars, csVars, tpVars>>

\* copyLink: the Copy Survey Link buttons are there once the load has ended
\* and are never disabled; the link goes to the clipboard, which is no state
\* of the page, and the toast is shown
copyLink ==
    /\ sr_pc = "idle" /\ ~sr_loading
    /\ sr_toast' = ToastCopied
    /\ UNCHANGED <<sr_question, sr_answers, sr_analytics, sr_pc, sr_id, sr_survey,
                   sr_questions, sr_responseCount, sr_loading, sr_results, sr_request,
                   sr_csv>>
    /\ UNCHANGED <<storeVars, tsVars, csVars, tpVars>>

----------------------------------------------------------------------------
(* Components that are not mounted in a specification keep these values.   *)

StoreEmpty ==
    /\ surveys = {} /\ questions = {} /\ responses = {} /\ answers = {}
    /\ survey_templates = {} /\ nextId = 1

TsUnmounted ==
    /\ ts_id = <<>> /\ ts_survey = <<>> /\ ts_questions = <<>> /\ ts_answers = <<>>
    /\ ts_loading = <<>> /\ ts_submitting = <<>> /\ ts_submitted = <<>>
    /\ ts_toast = <<>> /\ ts_pc = <<>> /\ ts_closure = <<>> /\ ts_response = <<>>

\* the AI dialog and the running save of a page just mounted
CsAiInitial ==
    /\ cs_insert = Null /\ cs_closure = <<>> /\ cs_shared = <<>>
    /\ cs_aiPrompt = <<>> /\ cs_isAiDialogOpen = FALSE
    /\ cs_isGenerating = FALSE /\ cs_gpc = "idle"

CsUnmounted ==
    /\ cs_title = <<>> /\ cs_description = <<>> /\ cs_questions = <<>> /\ cs_saving = FALSE
    /\ cs_toast = "" /\ cs_pc = "unmounted" /\ cs_survey = Null /\ cs_status = ""
    /\ CsAiInitial

TpUnmounted ==
    /\ tp_templates = <<>> /\ tp_pc = "unmounted" /\ tp_runs = <<>>
    /\ tp_toast = ""

\* the state of the results page before its load
SrPageInitial ==
    /\ sr_survey = Null /\ sr_questions = <<>> /\ sr_responseCount = 0
    /\ sr_loading = TRUE /\ sr_toast = "" /\ sr_results = Null
    /\ sr_request = Null /\ sr_csv = Null

SrUnmounted ==
    /\ sr_question = Null /\ sr_answers = <<>> /\ sr_analytics = Null
    /\ sr_pc = "unmounted" /\ sr_id = 0 /\ SrPageInitial

----------------------------------------------------------------------------
(* SpecRuntime: one respondent session against a store holding survey 1    *)
(* (any status, two questions), survey 2 (published, an insert of its      *)
(* questions never happened) and no survey 3.                              *)

RuntimeSurveys(status) ==
    {SurveyRow(1, <<"S">>, Null, status), SurveyRow(2, <<"E">>, Null, "published")}

RuntimeQuestions(type, r1, r2) ==
    {QuestionRow(11, 1, "short_text", <<"Q", "1">>, Null, r1, 0),
     QuestionRow(12, 1, type, <<"Q", "2">>,
                 IF type \in {"multiple_choice", "dropdown"} THEN Some(<<<<"A">>, <<"B">>>>)
                 ELSE Null,
                 r2, 1)}

RuntimeIds == {1, 2, 3}

TsMounted(S) ==
    /\ ts_id \in [S -> RuntimeIds]
    /\ ts_survey = [s \in S |-> Null]
    /\ ts_questions = [s \in S |-> <<>>]
    /\ ts_answers = [s \in S |-> EmptyRecord]
    /\ ts_loading = [s \in S |-> TRUE]
    /\ ts_submitting = [s \in S |-> FALSE]
    /\ ts_submitted = [s \in S |-> FALSE]
    /\ ts_toast = [s \in S |-> ""]
    /\ ts_pc = [s \in S |-> "fetchSurvey"]
    /\ ts_closure = [s \in S |-> EmptyRecord]
    /\ ts_response = [s \in S |-> Null]

InitRuntime ==
    /\ \E status \in SurveyStatuses : surveys = RuntimeSurveys(status)
    /\ \E type \in QuestionTypes, r1, r2 \in BOOLEAN :
          questions = RuntimeQuestions(type, r1, r2)
    /\ responses = {} /\ answers = {} /\ survey_templates = {} /\ nextId = 1
    /\ TsMounted({"r1"})
    /\ CsUnmounted /\ TpUnmounted /\ SrUnmounted

NextRuntime ==
    \/ \E s \in Sessions : fetchSurveyOk(s)
    \/ \E s \in Sessions : fetchSurveyNotFound(s)
    \/ \E s \in Sessions : fetchSurveyStoreError(s)
    \/ \E s \in Sessions : recordAnswer(s)
    \/ \E s \in Sessions : handleSubmitInvalid(s)
    \/ \E s \in Sessions : handleSubmitStart(s)
    \/ \E s \in Sessions : insertResponseOk(s)
    \/ \E s \in Sessions : insertResponseError(s)
    \/ \E s \in Sessions : insertAnswersOk(s)
    \/ \E s \in Sessions : insertAnswersError(s)

SpecRuntime == InitRuntime /\ [][NextRuntime]_vars

----------------------------------------------------------------------------
(* Claims about TakeSurvey.                                                *)

\* the respondent provided a value for question qid in accumulator rec: a
\* blank text box is no value, as in the required-question check
Provided(rec, qid) == qid \in DOMAIN rec /\ rec[qid] # <<>>

AnswerRowsFor(response_id, qid) ==
    {a \in answers : a.response_id = response_id /\ a.question_id = qid}

\* C1: a submit whose store calls all succeeded has inserted a Response row for
\* the survey and exactly one Answer row for each question the respondent
\* provided a value for, and none for a question left unanswered.
C1_OneAnswerPerProvidedValue ==
    \A s \in Sessions :
        ts_submitted[s] =>
            LET r == ts_response[s][1]
            IN /\ r \in responses
               /\ r.survey_id = ts_id[s]
               /\ \A i \in 1..Len(ts_questions[s]) :
                     Cardinality(AnswerRowsFor(r.id, ts_questions[s][i].id)) =
                         IF Provided(ts_closure[s], ts_questions[s][i].id) THEN 1 ELSE 0

\* the required questions of the loaded survey that have no answer
RequiredUnanswered(s) ==
    {i \in 1..Len(ts_questions[s]) :
        /\ ts_questions[s][i].required
        /\ ~Provided(ts_answers[s], ts_questions[s][i].id)}

\* C2: a submit while a required question has no accumulated answer reports
\* the validation error and requests no insert; responses and answers are
\* left unchanged.
C2_NoInsertWhenRequiredMissing ==
    [][\A s \in Sessions :
          (handleSubmit(s) /\ RequiredUnanswered(s) # {}) =>
              /\ ts_toast'[s] = ToastRequired
              /\ ts_pc'[s] = "idle" /\ ~ts_submitting'[s] /\ ~ts_submitted'[s]
              /\ responses' = responses /\ answers' = answers]_vars

\* C2 witness: the validation error was reported for a survey with an
\* unanswered required question, another question being answered
C2_Witness ==
    \E s \in Sessions :
        /\ ts_toast[s] = ToastRequired
        /\ RequiredUnanswered(s) # {}
        /\ DOMAIN ts_answers[s] # {}
        /\ responses = {} /\ answers = {}

\* C3: after any submit the store holds the Response row together with all of
\* its Answer rows, or neither; the response total of the results page counts
\* no response without its answers.
C3_ResponseWithAllAnswersOrNeither ==
    \A s \in Sessions :
        (ts_pc[s] = "idle" /\ ts_response[s] # Null) =>
            /\ answersToInsert(ts_response[s][1], ts_closure[s]) \subseteq answers
            /\ responseCount(ts_id[s]) =
                   Cardinality({r \in SelectResponses(ts_id[s]) :
                       \/ ts_closure[s] = EmptyRecord
                       \/ \E a \in answers : a.response_id = r.id})

\* no published survey has this identifier: it is a draft, closed or archived
\* survey, or no survey at all
Unavailable(id) == ~\E r \in surveys : r.id = id /\ r.status = "published"

\* C5: the load of a survey that is not published ends as the load of an
\* identifier no survey has: the not-found error, no survey, no questions.
C5_UnpublishedLoadsAsNonexistent ==
    [][\A s \in Sessions :
          (ts_pc[s] = "fetchSurvey" /\ ts_pc'[s] # "fetchSurvey" /\ Unavailable(ts_id[s])) =>
              /\ ts_toast'[s] = ToastNotFound
              /\ ts_survey'[s] = Null
              /\ ts_questions'[s] = <<>>
              /\ ~ts_loading'[s]
              /\ ts_answers'[s] = EmptyRecord]_vars

\* C5 witness: the load of a draft that has questions has failed
C5_Witness ==
    \E s \in Sessions :
        /\ ts_pc[s] = "idle"
        /\ \E r \in surveys : r.id = ts_id[s] /\ r.status = "draft"
        /\ SelectQuestions(ts_id[s]) # <<>>
        /\ ts_toast[s] = ToastNotFound
        /\ ts_survey[s] = Null /\ ts_questions[s] = <<>>

\* C6: the progress shown is answered / total, a fraction in [0,1] (shown as a
\* percentage), and is 0 when the survey has zero questions.
C6_ProgressGuarded ==
    \A s \in Sessions :
        FormRendered(s) =>
            LET p == progress(s)
            IN /\ ~p.nan
               /\ p.den > 0
               /\ 0 <= p.num /\ p.num <= 100 * p.den
               /\ Len(ts_questions[s]) = 0 => p.num = 0

\* C23: a Response row is inserted only for a survey whose load succeeded:
\* after a load that failed, whatever the respondent does in the session, the
\* store holds no Response row for the identifier of the page and no Answer
\* row of such a response.
C23_NoInsertAfterFailedLoad ==
    \A s \in Sessions :
        (ts_pc[s] # "fetchSurvey" /\ ts_survey[s] = Null) =>
            /\ \A r \in responses : r.survey_id # ts_id[s]
            /\ \A a \in answers :
                  \A r \in responses : r.id = a.response_id => r.survey_id # ts_id[s]

\* C24: the submits of the one session, retries after a store error included,
\* insert at most one Response row in total, and once submitted is true the
\* session has no insert in flight and cannot start one.
C24_AtMostOneResponsePerSession ==
    /\ Cardinality(responses) <= 1
    /\ \A s \in Sessions :
          ts_submitted[s] =>
              /\ ts_pc[s] = "idle"
              /\ ~ENABLED handleSubmitStart(s)

\* Object.keys(answers): the question has a key in the accumulator
CountedByProgress(rec, q) == q.id \in DOMAIN rec

\* !answers[q.id] is false: the question has a truthy value in the accumulator
TreatedAsAnswered(rec, q) == q.id \in DOMAIN rec /\ Truthy(rec[q.id])

\* C25: progress and the required-question check of submit agree on which
\* questions are answered, also after a text answer was overwritten with the
\* empty string, and a submit inserts an Answer row for a question exactly
\* when both count it as answered.
C25_ProgressAndSubmitAgree ==
    \A s \in Sessions :
        \A i \in 1..Len(ts_questions[s]) :
            LET q == ts_questions[s][i]
            IN /\ FormRendered(s) =>
                     (CountedByProgress(ts_answers[s], q) <=>
                          TreatedAsAnswered(ts_answers[s], q))
               /\ ts_submitted[s] =>
                     (AnswerRowsFor(ts_response[s][1].id, q.id) # {} <=>
                          /\ CountedByProgress(ts_closure[s], q)
                          /\ TreatedAsAnswered(ts_closure[s], q))

----------------------------------------------------------------------------
(* SpecRuntimeLive: SpecRuntime with every store call answered.  The       *)
(* promise of an insert settles, fulfilled or rejected, and the handler    *)
(* awaiting it is resumed; what the respondent does is under no obligation.*)

LiveSessions == {"r1"}

RuntimeFairness ==
    \A s \in LiveSessions :
        /\ WF_vars(insertResponseOk(s) \/ insertResponseError(s))
        /\ WF_vars(insertAnswersOk(s) \/ insertAnswersError(s))

SpecRuntimeLive == InitRuntime /\ [][NextRuntime]_vars /\ RuntimeFairness

\* a store call of handleSubmit is in flight
SubmitInFlight(s) == ts_pc[s] \in {"insertResponse", "insertAnswers"}

\* C26: every submit that passed validation settles: submitting is true
\* exactly while its store calls are in flight and is false again afterwards,
\* the attempt ends either with submitted true or with the error report and
\* submitted still false, never both, and while submitting is true no second
\* submit starts in the session.
C26_SubmitSettles ==
    /\ [](\A s \in Sessions :
             /\ ts_submitting[s] <=> SubmitInFlight(s)
             /\ ts_submitting[s] => ~ENABLED handleSubmitStart(s))
    /\ [][\A s \in Sessions :
             /\ handleSubmitStart(s) => ts_submitting'[s]
             /\ ts_submitting[s] => ~handleSubmit(s)
             /\ (ts_submitting[s] /\ ~ts_submitting'[s]) =>
                   /\ ts_pc'[s] = "idle"
                   /\ \/ ts_submitted'[s] /\ ts_toast'[s] = ToastSubmitted
                      \/ ~ts_submitted'[s] /\ ts_toast'[s] = ToastSubmitFailed]_vars
    /\ \A s \in LiveSessions : ts_submitting[s] ~> ~ts_submitting[s]

\* C26 witness: an attempt ended with the error report after its Response row
\* was inserted, and the next attempt of the session ended with submitted true
C26_Witness ==
    /\ ts_pc["r1"] = "idle"
    /\ ts_submitted["r1"] /\ ~ts_submitting["r1"]
    /\ ts_toast["r1"] = ToastSubmitted
    /\ Cardinality(responses) = 2
    /\ ts_closure["r1"] # EmptyRecord

----------------------------------------------------------------------------
(* SpecConcurrent: two respondent sessions on survey 1, published or still *)
(* a draft, their handlers and store calls interleaved in every order.     *)

InitConcurrent ==
    /\ \E status \in {"published", "draft"} : surveys = RuntimeSurveys(status)
    /\ \E r2 \in BOOLEAN : questions = RuntimeQuestions("multiple_choice", FALSE, r2)
    /\ responses = {} /\ answers = {} /\ survey_templates = {} /\ nextId = 1
    /\ TsMounted({"r1", "r2"})
    /\ \A s \in {"r1", "r2"} : ts_id[s] = 1
    /\ CsUnmounted /\ TpUnmounted /\ SrUnmounted

SpecConcurrent == InitConcurrent /\ [][NextRuntime]_vars

\* the Answer rows in the store that reference response row r
AnswerRowsOf(r) == {a \in answers : a.response_id = r.id}

\* C19: with two sessions submitting to one survey, in every interleaving the
\* Answer rows of a session reference the Response row that session created
\* and are the answers of that session, each pending insert can succeed
\* whatever the other session does, and the two sessions have two distinct
\* Response rows.
C19_ConcurrentSubmitsIndependent ==
    /\ \A s \in Sessions :
          /\ ts_response[s] # Null =>
                /\ ts_response[s][1] \in responses
                /\ ts_response[s][1].survey_id = ts_id[s]
                /\ AnswerRowsOf(ts_response[s][1]) \subseteq
                       {[response_id |-> ts_response[s][1].id, question_id |-> k,
                         answer_value |-> ts_closure[s][k]] : k \in DOMAIN ts_closure[s]}
          /\ ts_submitted[s] =>
                Cardinality(AnswerRowsOf(ts_response[s][1])) =
                    Cardinality(DOMAIN ts_closure[s])
          /\ ts_pc[s] = "insertResponse" => ENABLED insertResponseOk(s)
          /\ ts_pc[s] = "insertAnswers" => ENABLED insertAnswersOk(s)
    /\ \A s1, s2 \in Sessions :
          (s1 # s2 /\ ts_response[s1] # Null /\ ts_response[s2] # Null) =>
              ts_response[s1][1].id # ts_response[s2][1].id

\* C19 witness: both sessions have submitted, with different answers; the
\* session whose Response row was inserted second had its Answer rows
\* inserted first or second
C19_Witness ==
    /\ \E r \in surveys : r.id = 1 /\ r.status = "published"
    /\ ts_submitted["r1"] /\ ts_submitted["r2"]
    /\ ts_response["r1"][1].id > ts_response["r2"][1].id
    /\ Cardinality(responses) = 2
    /\ ts_closure["r1"] # ts_closure["r2"]
    /\ ts_closure["r1"] # EmptyRecord /\ ts_closure["r2"] # EmptyRecord

----------------------------------------------------------------------------
(* SpecBuilder: the builder page or the template gallery, against a store  *)
(* that holds the templates and no survey yet.                             *)

TemplateQuestion(type, text, options, required, order_index) ==
    [type |-> type, text |-> text, options |-> options, required |-> required,
     order_index |-> order_index]

\* rows of survey_templates, after the seed rows of the schema: ratings and a
\* choice question that are required, a text question that is not
SeedTemplates ==
    {[id |-> 1, name |-> <<"E">>, description |-> Some(<<"m">>),
      template_data |-> [questions |->
          <<TemplateQuestion("rating", <<"r">>, Null, TRUE, 0),
            TemplateQuestion("multiple_choice", <<"v">>, Some(<<<<"C">>, <<"T">>>>), TRUE, 1),
            TemplateQuestion("long_text", <<"i">>, Null, FALSE, 2)>>]],
     [id |-> 2, name |-> <<"W">>, description |-> Null,
      template_data |-> [questions |->
          <<TemplateQuestion("rating", <<"c">>, Null, TRUE, 0)>>]]}

\* what the administrator types and selects; the required checkbox of a
\* question is left as the page sets it
TitleInputs == {<<>>, <<" ">>, <<"T">>}
DescriptionInputs == {<<>>, <<"D">>}
QuestionTextInputs == {<<>>, <<"Q">>}
TypeInputs == {"multiple_choice", "rating"}

CsMounted ==
    /\ cs_title = <<>> /\ cs_description = <<>>
    /\ cs_questions = InitialQuestions
    /\ cs_saving = FALSE /\ cs_toast = "" /\ cs_pc = "idle"
    /\ cs_survey = Null /\ cs_status = ""
    /\ CsAiInitial

TpMounted ==
    /\ tp_templates = <<>> /\ tp_pc = "fetchTemplates" /\ tp_runs = <<>>
    /\ tp_toast = ""

\* the administrator has one page of the application open
InitBuilder ==
    /\ surveys = {} /\ questions = {} /\ responses = {} /\ answers = {}
    /\ survey_templates = SeedTemplates
    /\ nextId = 1
    /\ \/ CsMounted /\ TpUnmounted
       \/ CsUnmounted /\ TpMounted
    /\ TsUnmounted /\ SrUnmounted

NextBuilder ==
    \/ \E v \in TitleInputs : setTitle(v)
    \/ \E v \in DescriptionInputs : setDescription(v)
    \/ addQuestion
    \/ \E i \in 0..(MaxQuestions - 1) : removeQuestion(i)
    \/ \E i \in 0..(MaxQuestions - 1), v \in QuestionTextInputs : updateQuestion(i, "text", v)
    \/ \E i \in 0..(MaxQuestions - 1), v \in TypeInputs : updateQuestion(i, "type", v)
    \/ \E status \in {"draft", "published"} : saveSurveyNoTitle(status)
    \/ \E status \in {"draft", "published"} : saveSurveyNoText(status)
    \/ \E status \in {"draft", "published"} : saveSurveyStart(status)
    \/ csInsertSurveyOk
    \/ csInsertSurveyError
    \/ csInsertQuestionsOk
    \/ csInsertQuestionsError
    \/ fetchTemplatesOk
    \/ fetchTemplatesError
    \/ useTemplateStart
    \/ \E r \in 1..MaxSurveys : tpInsertSurveyOk(r)
    \/ \E r \in 1..MaxSurveys : tpInsertSurveyError(r)
    \/ \E r \in 1..MaxSurveys : tpInsertQuestionsOk(r)
    \/ \E r \in 1..MaxSurveys : tpInsertQuestionsError(r)

SpecBuilder == InitBuilder /\ [][NextBuilder]_vars

\* the administrator has the template gallery open
InitTemplates ==
    /\ surveys = {} /\ questions = {} /\ responses = {} /\ answers = {}
    /\ survey_templates = SeedTemplates
    /\ nextId = 1
    /\ CsUnmounted /\ TpMounted
    /\ TsUnmounted /\ SrUnmounted

NextTemplates ==
    \/ fetchTemplatesOk
    \/ fetchTemplatesError
    \/ useTemplateStart
    \/ \E r \in 1..MaxSurveys : tpInsertSurveyOk(r)
    \/ \E r \in 1..MaxSurveys : tpInsertSurveyError(r)
    \/ \E r \in 1..MaxSurveys : tpInsertQuestionsOk(r)
    \/ \E r \in 1..MaxSurveys : tpInsertQuestionsError(r)

SpecTemplates == InitTemplates /\ [][NextTemplates]_vars

----------------------------------------------------------------------------
(* Claims about CreateSurvey and Templates.                                *)

QuestionRowsOf(survey_id) == {q \in questions : q.survey_id = survey_id}

\* C4: after any save or template instantiation the store holds the Survey
\* row together with all of its Question rows, or neither of them.
C4_SurveyWithAllQuestionsOrNeither ==
    \A r \in surveys :
       \/ QuestionRowsOf(r.id) # {}
       \/ cs_pc = "insertQuestions" /\ cs_survey = Some(r)
       \/ \E n \in 1..Len(tp_runs) : tp_runs[n].survey = Some(r)

\* a text that is empty or made of white space only
Blank(text) == \A i \in 1..Len(text) : IsWhitespace(text[i])

\* C7: a save with an empty or white-space title, or with a question whose
\* text is empty, fails validation and requests no store call; no Survey row
\* and no Question row is inserted.
C7_InvalidSaveIssuesNoStoreCall ==
    [][\A status \in {"draft", "published"} :
          (/\ saveSurvey(status)
           /\ \/ Blank(cs_title)
              \/ \E i \in 1..Len(cs_questions) : cs_questions[i].text = <<>>) =>
              /\ cs_toast' \in {ToastNoTitle, ToastNoText}
              /\ cs_pc' = "idle" /\ ~cs_saving'
              /\ surveys' = surveys /\ questions' = questions /\ nextId' = nextId]_vars

\* C7 witness: a save was refused for a title of white space only although
\* every question has a text
C7_Witness ==
    /\ cs_toast = ToastNoTitle
    /\ cs_title = <<" ">>
    /\ \A i \in 1..Len(cs_questions) : cs_questions[i].text = <<"Q">>
    /\ cs_pc = "idle" /\ surveys = {} /\ questions = {}

\* C12: after any sequence of addQuestion and removeQuestion each question of
\* the builder list has its position (0..n-1) as order index, and the order
\* indices a save has written for one survey are pairwise distinct.
C12_OrderIndexIsPosition ==
    /\ cs_pc # "unmounted" =>
          \A i \in 1..Len(cs_questions) : cs_questions[i].order_index = i - 1
    /\ \A q1, q2 \in questions :
          (q1.survey_id = q2.survey_id /\ q1.id # q2.id) => q1.order_index # q2.order_index

\* C16: a template instantiation whose store calls succeed inserts one new
\* Survey row (status draft, title the template name, description the template
\* description) and one Question row per template entry, referencing that
\* survey with the entry's type, text, options, required and order_index; the
\* template rows are never modified.
C16_InstantiateCopiesTemplate ==
    [][/\ survey_templates' = survey_templates
       /\ \A n \in 1..Len(tp_runs) :
             LET template == tp_runs[n].template
                 entries == template.template_data.questions
                 rows == questions' \ questions
             IN /\ tpInsertSurveyOk(n) =>
                      \E r \in surveys' \ surveys :
                         /\ surveys' = surveys \cup {r}
                         /\ \A o \in surveys : o.id # r.id
                         /\ r.status = "draft"
                         /\ r.title = template.name
                         /\ r.description = template.description
                         /\ tp_runs'[n].survey = Some(r)
                         /\ questions' = questions
                /\ tpInsertQuestionsOk(n) =>
                      /\ surveys' = surveys
                      /\ questions \subseteq questions'
                      /\ Cardinality(rows) = Len(entries)
                      /\ \A q \in rows : q.survey_id = tp_runs[n].survey[1].id
                      /\ \A i \in 1..Len(entries) :
                            \E q \in rows :
                               /\ q.type = entries[i].type
                               /\ q.text = entries[i].text
                               /\ q.options = entries[i].options
                               /\ q.required = entries[i].required
                               /\ q.order_index = entries[i].order_index]_vars

\* C16 witness: the template with three questions, one of them with options,
\* was instantiated while a second instantiation was running
C16_Witness ==
    /\ tp_pc = "left"
    /\ Len(tp_runs) = 1
    /\ \E r \in surveys :
          /\ r.title = <<"E">> /\ r.status = "draft"
          /\ Cardinality(QuestionRowsOf(r.id)) = 3
          /\ \E q \in QuestionRowsOf(r.id) : q.options = Some(<<<<"C">>, <<"T">>>>)

\* C20: every Survey row inserted has status draft or published: the builder
\* writes the status passed to the save, a template instantiation writes
\* draft; no step removes a Survey row or changes one, its status included.
C20_OnlyDraftOrPublishedWritten ==
    [][/\ surveys \subseteq surveys'
       /\ \A r \in surveys' \ surveys :
             /\ r.status \in {"draft", "published"}
             /\ cs_pc = "insertSurvey" => r.status = cs_status
             /\ tp_pc # "unmounted" => r.status = "draft"]_vars

\* C20 witness: the builder has written a draft and a published survey
C20_Witness ==
    /\ \E r \in surveys : r.status = "draft"
    /\ \E r \in surveys : r.status = "published"
    /\ cs_pc = "left"

\* C21: addQuestion appends exactly one question at the end of the list, of
\* type multiple_choice with a single empty option, not required, its order
\* index the number of questions before the call; the questions already in
\* the list are unchanged.
C21_AddQuestionAppendsDefault ==
    [][addQuestion =>
          LET n == Len(cs_questions)
          IN /\ Len(cs_questions') = n + 1
             /\ cs_questions'[n + 1].type = "multiple_choice"
             /\ cs_questions'[n + 1].options = Some(<<<<>>>>)
             /\ cs_questions'[n + 1].required = FALSE
             /\ cs_questions'[n + 1].order_index = n
             /\ \A i \in 1..n : cs_questions'[i] = cs_questions[i]]_vars

\* C21 witness: a question was added after the first question was given a
\* text and made a rating question
C21_Witness ==
    /\ Len(cs_questions) = 2
    /\ cs_questions[1] = BuilderQuestion("rating", <<"Q">>, Some(<<<<>>>>), TRUE, 0)
    /\ cs_questions[2] = BuilderQuestion("multiple_choice", <<>>, Some(<<<<>>>>), FALSE, 1)

\* C22: in a save that passed validation the Question insert is issued only
\* after the Survey insert succeeded; a failed Survey insert ends the save with
\* no Question insert; the Question insert writes, in one call, one row per
\* question of the builder list the save was called on, each referencing the
\* Survey row just inserted.
C22_QuestionsInsertedAfterSurvey ==
    [][cs_pc # "unmounted" =>
          /\ cs_pc' = "insertQuestions" =>
                \/ cs_pc = "insertQuestions"
                \/ /\ cs_pc = "insertSurvey"
                   /\ cs_survey' # Null
                   /\ surveys' = surveys \cup {cs_survey'[1]}
                   /\ cs_survey'[1] \notin surveys
          /\ csInsertSurveyError =>
                cs_pc' = "idle" /\ surveys' = surveys /\ questions' = questions
          /\ cs_pc = "insertSurvey" => questions' = questions
          /\ questions' # questions =>
                LET rows == questions' \ questions
                IN /\ cs_pc = "insertQuestions"
                   /\ cs_survey # Null /\ cs_survey[1] \in surveys
                   /\ questions \subseteq questions'
                   /\ Cardinality(rows) = Len(cs_closure)
                   /\ \A q \in rows : q.survey_id = cs_survey[1].id
                   /\ \A i \in 1..Len(cs_closure) :
                         \E q \in rows :
                            /\ q.type = cs_closure[i].type
                            /\ q.text = cs_closure[i].text
                            /\ q.required = cs_closure[i].required
                            /\ q.order_index = cs_closure[i].order_index]_vars

\* C22 witness: a save of two questions went through, the store holding
\* a survey row besides the one it inserted
C22_Witness ==
    /\ cs_pc = "left"
    /\ Len(cs_questions) = 2
    /\ Cardinality(surveys) = 2
    /\ Cardinality(QuestionRowsOf(cs_survey[1].id)) = 2
    /\ Cardinality(questions) = 2

----------------------------------------------------------------------------
(* SpecGenerate: the builder page with its option inputs and its AI dialog, *)
(* against the generation endpoint and a store that holds no survey yet.   *)

\* what the endpoint can return as data.questions: a choice question without
\* options, and two questions that carry the same order_index
AiLists ==
    {<<BuilderQuestion("multiple_choice", <<"H">>, Null, TRUE, 7)>>,
     <<BuilderQuestion("rating", <<"G">>, Null, TRUE, 5),
       BuilderQuestion("short_text", <<"K">>, Null, FALSE, 5)>>}

\* error.message of a failed invocation, "" for an error without message
AiErrorMessages == {"", "Edge Function returned a non-2xx status code"}

AiPromptInputs == {<<>>, <<" ">>, <<"p">>}
OptionInputs == {<<>>, <<"Y">>}

InitGenerate ==
    /\ StoreEmpty
    /\ CsMounted
    /\ TsUnmounted /\ TpUnmounted /\ SrUnmounted

NextGenerate ==
    \/ setTitle(<<"T">>)
    \/ \E i \in 0..(MaxQuestions - 1) : updateQuestion(i, "text", <<"Q">>)
    \/ \E i \in 0..(MaxQuestions - 1) : addOption(i)
    \/ \E i \in 0..(MaxQuestions - 1), j \in 0..(MaxOptions - 1), v \in OptionInputs :
          updateOption(i, j, v)
    \/ \E i \in 0..(MaxQuestions - 1), j \in 0..(MaxOptions - 1) : removeOption(i, j)
    \/ \E open \in BOOLEAN : setIsAiDialogOpen(open)
    \/ \E v \in AiPromptInputs : setAiPrompt(v)
    \/ generateWithAINoPrompt
    \/ generateWithAIStart
    \/ \E list \in AiLists : generateOk(list)
    \/ generateNoQuestions
    \/ \E message \in AiErrorMessages : generateError(message)
    \/ saveSurveyNoTitle("published")
    \/ saveSurveyNoText("published")
    \/ saveSurveyStart("published")
    \/ csInsertSurveyOk
    \/ csInsertSurveyError
    \/ csInsertQuestionsOk
    \/ csInsertQuestionsError

SpecGenerate == InitGenerate /\ [][NextGenerate]_vars

----------------------------------------------------------------------------
(* Claims about the option lists and the AI generator.                     *)

\* C13: no Question row of type multiple_choice or dropdown is written with an
\* empty or null option list, whether its question was edited by hand or came
\* from the AI generator.
C13_NoChoiceRowWithoutOptions ==
    \A q \in questions :
        q.type \in {"multiple_choice", "dropdown"} =>
            q.options # Null /\ Len(q.options[1]) > 0

\* the toast of a failed generation: the message of the error, or the default
GenerateErrorToasts == (AiErrorMessages \ {""}) \cup {ToastGenerateFailed}

\* C14: a failed generation leaves the question list as it was and reports an
\* error; on every path of generateWithAI the generating flag is false once
\* the handler has ended.
C14_FailedGenerationKeepsQuestions ==
    [][/\ \A message \in AiErrorMessages :
             generateError(message) =>
                /\ cs_questions' = cs_questions
                /\ cs_toast' \in GenerateErrorToasts
                /\ cs_gpc' = "idle" /\ ~cs_isGenerating'
       /\ (generateWithAI /\ cs_gpc' = "idle") => ~cs_isGenerating'
       /\ (cs_gpc = "invoke" /\ cs_gpc' = "idle") => ~cs_isGenerating']_vars

\* C14 witness: a generation failed after the administrator wrote a question
C14_Witness ==
    /\ cs_toast = ToastGenerateFailed
    /\ cs_gpc = "idle" /\ ~cs_isGenerating
    /\ Len(cs_questions) = 1 /\ cs_questions[1].text = <<"Q">>
    /\ cs_questions[1].options = Some(<<<<"Y">>>>)

\* C15: a successful generation replaces the question list by the returned
\* list in the returned order, every item with its position 0..n-1 as order
\* index whatever the endpoint supplied; no previous question is kept.
C15_GenerationReplacesQuestions ==
    [][\A list \in AiLists :
          generateOk(list) =>
             /\ Len(cs_questions') = Len(list)
             /\ \A i \in 1..Len(list) :
                   /\ cs_questions'[i].order_index = i - 1
                   /\ cs_questions'[i].type = list[i].type
                   /\ cs_questions'[i].text = list[i].text
                   /\ cs_questions'[i].options = list[i].options
                   /\ cs_questions'[i].required = list[i].required]_vars

\* C15 witness: the two generated questions, returned with order_index 5 and 5,
\* have replaced the question the page started with
C15_Witness ==
    /\ cs_toast = ToastGenerated
    /\ Len(cs_questions) = 2
    /\ cs_questions[1].text = <<"G">> /\ cs_questions[1].order_index = 0
    /\ cs_questions[2].text = <<"K">> /\ cs_questions[2].order_index = 1

----------------------------------------------------------------------------
(* SpecAnalytics: the results page of a survey of two questions after its  *)
(* load, rendering the question cards.  sr_question is the question of the *)
(* card rendered last and sr_analytics its analytics.                      *)

\* an option label that is the name of a method every object inherits
LabelToString == <<"t", "o", "S", "t", "r", "i", "n", "g">>

\* answer values found in the store: option labels, among them labels that are
\* numerals and one that is the name of an inherited method, and ratings
AnswerValues == {<<"A">>, LabelToString, <<"1", "0">>, <<"3">>, <<"4">>, <<"5">>}

\* The first question has id 1; the list also holds answers of question 2
AnswerRows ==
    {[question_id |-> 1, answer_value |-> v] : v \in AnswerValues}
        \cup {[question_id |-> 2, answer_value |-> <<"5">>]}

BoundedSeq(S, n) == UNION {[1..k -> S] : k \in 0..n}

\* The page after a load that succeeded.  The survey has question 1 of type t
\* and question 2, a rating.  The store holds count responses of the survey
\* (31, 32, ...) and the answer rows[i] for response 30 + i; the answers query
\* returned the rows in the order of rows.  With no response the page holds
\* no answers.
InitAnalytics ==
    /\ TsUnmounted /\ CsUnmounted /\ TpUnmounted
    /\ \E t \in QuestionTypes, rows \in BoundedSeq(AnswerRows, MaxAnswers) :
       \E count \in (IF Len(rows) = 0 THEN {0, 1} ELSE {Len(rows)}) :
          LET survey == SurveyRow(1, <<"S">>, Null, "published")
              labels == <<<<"A">>, LabelToString, <<"1", "0">>, <<"3">>, <<"4">>, <<"5">>>>
              qs == {QuestionRow(1, 1, t, <<"Q", "1">>,
                                 IF t \in {"multiple_choice", "dropdown"}
                                 THEN Some(labels) ELSE Null,
                                 FALSE, 0),
                     QuestionRow(2, 1, "rating", <<"Q", "2">>, Null, FALSE, 1)}
          IN /\ surveys = {survey}
             /\ questions = qs
             /\ responses = {[id |-> 30 + i, survey_id |-> 1] : i \in 1..count}
             /\ answers = {[response_id |-> 30 + i, question_id |-> rows[i].question_id,
                            answer_value |-> rows[i].answer_value] : i \in 1..Len(rows)}
             /\ sr_survey = Some(survey)
             /\ sr_questions = OrderByIndex(qs)
             /\ sr_responseCount = count
             /\ sr_answers = rows
             /\ sr_request = IF count = 0 THEN Null ELSE Some({30 + i : i \in 1..count})
    /\ survey_templates = {} /\ nextId = 40
    /\ sr_id = 1
    /\ sr_results = Some([surveyError |-> FALSE, questionsError |-> FALSE,
                          responsesError |-> FALSE])
    /\ sr_question = Null /\ sr_analytics = Null
    /\ sr_pc = "idle" /\ sr_loading = FALSE /\ sr_toast = "" /\ sr_csv = Null

\* rendering the card of question index: the cards are rendered once the load
\* has ended and responseCount is not 0 (otherwise "No responses yet");
\* const analytics = getQuestionAnalytics(question)
RenderAnalytics(index) ==
    /\ sr_pc = "idle" /\ ~sr_loading
    /\ sr_responseCount # 0
    /\ index \in 0..(Len(sr_questions) - 1)
    /\ sr_question' = Some(sr_questions[index + 1])
    /\ sr_analytics' = Some(getQuestionAnalytics(sr_questions[index + 1], sr_answers))
    /\ UNCHANGED <<sr_answers, sr_pc, sr_id, sr_survey, sr_questions,
                   sr_responseCount, sr_loading, sr_toast, sr_results, sr_request, sr_csv>>
    /\ UNCHANGED <<storeVars, tsVars, csVars, tpVars>>

NextAnalytics == \E index \in 0..1 : RenderAnalytics(index)

SpecAnalytics == InitAnalytics /\ [][NextAnalytics]_vars

----------------------------------------------------------------------------
(* Claims about getQuestionAnalytics.                                      *)

\* the values of the rendered question's answers, in list order
ValuesOf(qid, ans) ==
    LET Mine(a) == a.question_id = qid
        mine == SelectSeq(ans, Mine)
    IN [i \in 1..Len(mine) |-> mine[i].answer_value]

Occurrences(v, vs) == Cardinality({i \in 1..Len(vs) : vs[i] = v})

\* the distinct values of vs in order of first occurrence
RECURSIVE FirstOccurrences(_)
FirstOccurrences(vs) ==
    IF Len(vs) = 0 THEN <<>>
    ELSE LET init == FirstOccurrences(SubSeq(vs, 1, Len(vs) - 1))
             last == vs[Len(vs)]
         IN IF \E i \in 1..Len(init) : init[i] = last THEN init ELSE Append(init, last)

IsChoice(q) == q.type \in {"multiple_choice", "dropdown"}

\* a question card has been rendered
Rendered == sr_analytics # Null

\* C8: for a multiple_choice or dropdown question the analytics are one
\* (value, count) pair per distinct answer value of the question, the count
\* being the number of occurrences, the pairs in order of first occurrence.
C8_TallyInFirstOccurrenceOrder ==
    (Rendered /\ IsChoice(sr_question[1])) =>
        LET vs == ValuesOf(sr_question[1].id, sr_answers)
            firsts == FirstOccurrences(vs)
        IN sr_analytics[1] =
               [i \in 1..Len(firsts) |->
                   [name |-> firsts[i], value |-> NumberValue(Occurrences(firsts[i], vs))]]

\* C9: for a rating question with no answers the analytics are the average
\* "0.0" and the total 0.
C9_NoRatingsAverage ==
    (Rendered /\ sr_question[1].type = "rating"
        /\ Len(ValuesOf(sr_question[1].id, sr_answers)) = 0) =>
        sr_analytics[1] = [average |-> <<"0", ".", "0">>, total |-> 0]

RatingTexts == {<<"1">>, <<"2">>, <<"3">>, <<"4">>, <<"5">>}

RECURSIVE SumDigits(_)
SumDigits(vs) == IF Len(vs) = 0 THEN 0 ELSE DigitValue(Head(vs)[1]) + SumDigits(Tail(vs))

Abs(n) == IF n < 0 THEN -n ELSE n

\* the rendered question is a rating question with at least one answer, each the
\* text of an integer 1..5
RatedCase ==
    /\ Rendered
    /\ sr_question[1].type = "rating"
    /\ LET vs == ValuesOf(sr_question[1].id, sr_answers)
       IN Len(vs) > 0 /\ \A i \in 1..Len(vs) : vs[i] \in RatingTexts

\* C10: for a rating question with at least one answer, each an integer 1..5 as
\* text, total is the number of the question's answers and average is the text
\* "d.d" of a tenth nearest to their arithmetic mean; answers of other questions
\* do not contribute.
C10_RatingAverage ==
    RatedCase =>
        LET vs == ValuesOf(sr_question[1].id, sr_answers)
            n == Len(vs)
            avg == sr_analytics[1].average
            tenths == 10 * DigitValue(avg[1]) + DigitValue(avg[3])
        IN /\ sr_analytics[1].total = n
           /\ Len(avg) = 3 /\ IsDigit(avg[1]) /\ avg[2] = "." /\ IsDigit(avg[3])
           /\ 2 * Abs(tenths * n - 10 * SumDigits(vs)) <= n

\* C10 witness: ratings 4, 5, 3 among answers of another question give "4.0", 3
C10_Witness ==
    /\ RatedCase
    /\ sr_question[1].id = 1
    /\ ValuesOf(1, sr_answers) = <<<<"4">>, <<"5">>, <<"3">>>>
    /\ Len(sr_answers) > 3
    /\ sr_analytics[1] = [average |-> <<"4", ".", "0">>, total |-> 3]

----------------------------------------------------------------------------
(* SpecResults: the results page of survey 1, survey 2 or an identifier no *)
(* survey has, against a store that holds the responses respondents have   *)
(* submitted to both surveys.                                              *)

ResultsSurveys ==
    {SurveyRow(1, <<"S">>, Null, "published"), SurveyRow(2, <<"E">>, Null, "closed")}

ResultsQuestions ==
    {QuestionRow(11, 1, "multiple_choice", <<"Q", "1">>, Some(<<<<"A">>, <<"3">>, LabelToString>>), TRUE, 0),
     QuestionRow(12, 1, "rating", <<"Q", "2">>, Null, FALSE, 1),
     QuestionRow(13, 1, "short_text", <<"Q", "3">>, Null, FALSE, 2),
     QuestionRow(21, 2, "rating", <<"Q", "4">>, Null, TRUE, 0)}

\* what one respondent of survey 1 answered: an option, and perhaps a rating
\* and a text, one of them holding a quote character
ResultsSubmissions ==
    [choice : {<<"A">>, <<"3">>, LabelToString},
     rating : {Null, Some(<<"4">>)},
     text : {Null, Some(<<"x">>), Some(<<"\"", "x">>)}]

\* the rows of responses and answers after the submissions subs to survey 1
\* (responses 31, 32, ...) and one submission to survey 2 (response 39)
ResultsResponses(subs) ==
    {[id |-> 30 + i, survey_id |-> 1] : i \in 1..Len(subs)} \cup {[id |-> 39, survey_id |-> 2]}

ResultsAnswers(subs) ==
    {[response_id |-> 30 + i, question_id |-> 11, answer_value |-> subs[i].choice] :
        i \in 1..Len(subs)}
    \cup {[response_id |-> 30 + i, question_id |-> 12, answer_value |-> subs[i].rating[1]] :
             i \in {j \in 1..Len(subs) : subs[j].rating # Null}}
    \cup {[response_id |-> 30 + i, question_id |-> 13, answer_value |-> subs[i].text[1]] :
             i \in {j \in 1..Len(subs) : subs[j].text # Null}}
    \cup {[response_id |-> 39, question_id |-> 21, answer_value |-> <<"2">>]}

SrMounted ==
    /\ sr_id \in {1, 2, 3}
    /\ sr_question = Null /\ sr_answers = <<>> /\ sr_analytics = Null
    /\ sr_pc = "fetchData"
    /\ SrPageInitial

InitResults ==
    /\ surveys = ResultsSurveys
    /\ questions = ResultsQuestions
    /\ \E n \in 0..MaxResponses : \E subs \in [1..n -> ResultsSubmissions] :
          /\ responses = ResultsResponses(subs)
          /\ answers = ResultsAnswers(subs)
    /\ survey_templates = {} /\ nextId = 40
    /\ SrMounted
    /\ TsUnmounted /\ CsUnmounted /\ TpUnmounted

NextResults ==
    \/ \E se, qe, re \in BOOLEAN : fetchDataThrown(JoinedResults(se, qe, re))
    \/ \E se, qe, re \in BOOLEAN : fetchDataNoResponses(JoinedResults(se, qe, re))
    \/ \E se, qe, re \in BOOLEAN : fetchDataAnswersRequested(JoinedResults(se, qe, re))
    \/ fetchAnswersOk
    \/ fetchAnswersError
    \/ copyLink
    \/ exportData

SpecResults == InitResults /\ [][NextResults]_vars

----------------------------------------------------------------------------
(* Claims about the results page.                                          *)

\* C11: the results load renders only if the Survey, the Questions and the
\* Responses fetch all succeed; when one of the three fails the load reports
\* the single load error and the view holds no loaded data.  The error stays
\* on show until the administrator copies the link, the one control of the
\* page that sets another toast after such a load.
C11_LoadAbortsOnAnyFailure ==
    (sr_pc = "idle" /\ sr_results # Null) =>
        ((sr_results[1].surveyError \/ sr_results[1].questionsError
             \/ sr_results[1].responsesError) =>
            /\ sr_toast \in {ToastLoadFailed, ToastCopied}
            /\ sr_survey = Null /\ sr_questions = <<>>
            /\ sr_responseCount = 0 /\ sr_answers = <<>>)

\* the lines of a text: its parts between line feeds
Lines(text) ==
    LET breaks == {i \in 1..Len(text) : text[i] = "\n"}
        n == Cardinality(breaks)
        break(k) == IF k = 0 THEN 0
                    ELSE IF k = n + 1 THEN Len(text) + 1
                    ELSE CHOOSE i \in breaks : Cardinality({j \in breaks : j < i}) = k - 1
    IN [k \in 1..(n + 1) |-> SubSeq(text, break(k - 1) + 1, break(k) - 1)]

\* the text a quoted CSV field stands for (doubled quotes read as one), or
\* Null when the field is not a well-formed quoted field
RECURSIVE UnquoteBody(_)
UnquoteBody(body) ==
    IF Len(body) = 0 THEN Some(<<>>)
    ELSE IF Head(body) # "\"" THEN
        LET rest == UnquoteBody(Tail(body))
        IN IF rest = Null THEN Null ELSE Some(<<Head(body)>> \o rest[1])
    ELSE IF Len(body) >= 2 /\ body[2] = "\"" THEN
        LET rest == UnquoteBody(Tail(Tail(body)))
        IN IF rest = Null THEN Null ELSE Some(<<"\"">> \o rest[1])
    ELSE Null

CsvUnquote(field) ==
    IF Len(field) >= 2 /\ field[1] = "\"" /\ field[Len(field)] = "\""
    THEN UnquoteBody(SubSeq(field, 2, Len(field) - 1))
    ELSE Null

\* the number of analytics rows the export owes to question q
AnalyticsRowCount(q, ans) ==
    IF IsChoice(q) THEN Len(FirstOccurrences(ValuesOf(q.id, ans)))
    ELSE IF q.type = "rating" THEN 1
    ELSE Len(ValuesOf(q.id, ans))

\* the number of lines before the text row of the k-th question
RECURSIVE LinesBefore(_, _, _)
LinesBefore(k, qs, ans) ==
    IF k = 1 THEN 3
    ELSE LinesBefore(k - 1, qs, ans) + AnalyticsRowCount(qs[k - 1], ans) + 2

\* lines holds, from line o + 1 on, the rows of question q
QuestionLinesOk(lines, o, q, ans) ==
    LET vs == ValuesOf(q.id, ans)
        n == AnalyticsRowCount(q, ans)
    IN /\ lines[o + 1] = q.text
       /\ lines[o + n + 2] = <<>>
       /\ IsChoice(q) =>
             /\ {lines[o + 1 + i] : i \in 1..n} =
                    {vs[i] \o <<",">> \o NatToString(Occurrences(vs[i], vs)) : i \in 1..Len(vs)}
             /\ \A i \in 1..Len(vs) : Occurrences(vs[i], vs) > 0
       /\ q.type = "rating" =>
             lines[o + 2] = <<"A", "v", "e", "r", "a", "g", "e", " ",
                              "R", "a", "t", "i", "n", "g", ",">>
                            \o getQuestionAnalytics(q, ans).average
       /\ q.type \in {"short_text", "long_text"} =>
             \A i \in 1..n : CsvUnquote(lines[o + 1 + i]) = Some(vs[i])

\* C17: the export is, in order, the row of the survey title, the row of the
\* response total, a blank row, and for each question in display order its
\* text row, its analytics rows (label,count for each answered option; Average
\* Rating,value; each text answer quoted with its quotes doubled) and a blank
\* row; the export changes no stored data.
C17_ExportRows ==
    [][exportData =>
          LET lines == Lines(sr_csv'[1])
              qs == sr_questions
              n == Len(qs)
          IN /\ Len(lines) = LinesBefore(n + 1, qs, sr_answers)
             /\ lines[1] = <<"S", "u", "r", "v", "e", "y", ",">> \o sr_survey[1].title
             /\ lines[2] = <<"T", "o", "t", "a", "l", " ", "R", "e", "s", "p", "o", "n",
                             "s", "e", "s", ",">> \o NatToString(sr_responseCount)
             /\ lines[3] = <<>>
             /\ \A k \in 1..n :
                   QuestionLinesOk(lines, LinesBefore(k, qs, sr_answers), qs[k], sr_answers)
             /\ UNCHANGED storeVars]_vars

\* the responses of the survey the page shows
OwnResponseIds == {r.id : r \in {x \in responses : x.survey_id = sr_id}}

\* C18: no Answers fetch is issued when the Responses fetch returned no row;
\* one is issued only after the Responses fetch returned an identifier, for
\* exactly the response identifiers of this survey, and every answer loaded
\* belongs to one of this survey's responses.
C18_AnswersFetchOnlyForOwnResponses ==
    /\ OwnResponseIds = {} => (sr_request = Null /\ sr_pc # "fetchAnswers")
    /\ sr_pc = "fetchAnswers" => sr_request # Null
    /\ sr_request # Null =>
          /\ sr_results # Null /\ ~sr_results[1].responsesError
          /\ sr_request[1] # {}
          /\ sr_request[1] = OwnResponseIds
    /\ sr_answers # <<>> => sr_request # Null
    /\ Len(sr_answers) <=
           Cardinality({a \in answers : a.response_id \in OwnResponseIds})
    /\ \A i \in 1..Len(sr_answers) :
          \E a \in answers :
             /\ a.response_id \in OwnResponseIds
             /\ a.question_id = sr_answers[i].question_id
             /\ a.answer_value = sr_answers[i].answer_value

\* C18 witness: the answers of survey 1 were loaded while the store also
\* holds an answer given to survey 2
C18_Witness ==
    /\ sr_id = 1 /\ sr_pc = "idle"
    /\ sr_request = Some({31, 32})
    /\ Len(sr_answers) >= 2
    /\ \E a \in answers : a.response_id \notin OwnResponseIds

====
